---- MODULE Spec2Model ----
(***************************************************************************)
(* Symbol table manager and precedence-relation graph of Bison             *)
(* (src/symtab.c): the symbol store, the finalization sweeps               *)
(* (symbols_check_defined, symbols_pack, symbols_token_translations_init)  *)
(* and the precedence graph with its transitive reduction.                 *)
(***************************************************************************)
EXTENDS Integers, Sequences, FiniteSets, TLC

(***************************************************************************)
(* Bounds of the model.                                                    *)
(***************************************************************************)
\* Number of mutator calls the grammar parser makes before finalization.
MaxOps == 4
\* Number of dummy nonterminals dummy_symbol_get may generate.
MaxDummy == 1
\* Number of register_precedence calls in the precedence-graph specification.
MaxEdges == 3
\* Number of register_precedence calls in the grouping specification.
MaxRelations == 4
\* The symbol numbers SpecGroup registers as the higher side of a relation.
GroupFirsts == 0..2

(***************************************************************************)
(* Sentinels of symtab.h and the null pointer.                             *)
(***************************************************************************)
NULL == "NULL"
NUMBER_UNDEFINED == -1
USER_NUMBER_UNDEFINED == -1
USER_NUMBER_HAS_STRING_ALIAS == -9991
SYMBOL_NUMBER_MAXIMUM == 2147483647
empty_location == 0

(***************************************************************************)
(* The tag universe.  Tags are interned strings; TagOrder lists the        *)
(* universe in strcmp (byte) order: '"' = 0x22 < '$' = 0x24, '@' < 'a',    *)
(* upper case < lower case.                                                *)
(***************************************************************************)
StrS == "\"s\""
\* A string and a character literal with a dash, and an identifier with one.
StrDash == "\"-\""
ChrDash == "'-'"
IdDash == "a-b"
TagOrder ==
  << StrDash, StrS, "$@1", "$@2", "$accept", "$end", "$undefined", ChrDash,
     "A", "B", "C", "D", IdDash, "error" >>
AllTags == { TagOrder[i] : i \in 1..Len(TagOrder) }
\* Keys the grammar can spell (the scanner never yields a '$' identifier).
UserTags == { "A", StrS, "error" }
\* Identifiers the grammar can name in %start.
StartTags == { "A" }
\* tag[0] == '"' || tag[0] == '\''
QuotedTags == { StrS, StrDash, ChrDash }
\* strchr (tag, '-')
DashTags == { StrDash, ChrDash, IdDash }
\* tag[0] == '$'
DollarTags == { "$@1", "$@2", "$accept", "$end", "$undefined" }
\* sprintf (buf, "$@%d", n)
DummyTag(n) == << "$@1", "$@2" >>[n]

Locs == { 1, 2 }
MentionLocs == { 1 }
MutLocs == { 2 }
Declaring == { TRUE }
Classes == { "token_sym", "nterm_sym" }
Assocs == { "undef_assoc", "left_assoc", "precedence_assoc" }
DeclAssocs == { "left_assoc" }
Precs == { 1 }
UserNumbers == { 0, 256, 258 }
Kinds == { "destructor", "printer" }
TypeNames == { "INT", "STR" }
Codes == { "c1", "c2" }
GetTags == { "A", StrS }
GetTypeNames == { "INT" }
\* Scenario E1: the token IF, its literal string, the user numbers it may
\* be given, and the nonterminal of the grammar.
\* The keys of SpecDash.
DashKeys == { StrDash, ChrDash, IdDash }
E3Tags == { "A", "B", "C" }
\* The symbol the declarations of SpecSet are about, and their arguments.
SetTag == "A"
\* The symbols of SpecStart.
StartSyms == { "A", "B" }
SetTypeNames == { NULL, "INT", "STR" }
SetPrecs == { 1, 2 }
SetAssocs == { "undef_assoc", "left_assoc" }
SetNumbers == { 258, 300 }
E1Token == "A"
E1Nterm == "B"
\* The alias pair of SpecAlias.
AliasSyms == { E1Token, StrS }
E1Numbers == { 258, 300 }
\* Scenario E4: the tokens, the user numbers declared for them, and the
\* nonterminal of the grammar.
E4Tokens == { "A", "B", "C" }
E4Nterm == "D"
E4Numbers == { 100, 200, 400 }
\* Semantic-type tags in strcmp order.
TypeOrder == << "", "*", "INT", "STR" >>

VARIABLES
  syms,                  \* symbol_table: tag -> symbol record
  types,                 \* semantic_type_table: tag -> semantic type record
  nsyms, ntokens, nvars, \* counters of gram.c
  errtoken, undeftoken, endtoken, accept, startsymbol,
  startsymbol_location,
  symbols_sorted,        \* NULL, or the tags sorted by symbols_do
  semantic_types_sorted, \* NULL, or the type tags sorted by symbols_do
  symbols,               \* NULL, or the packed vector (0-based: symbols[i+1])
  token_translations,    \* NULL, or the translation vector (0-based)
  max_user_token_number,
  code_props_none,       \* the shared empty code_props
  dummy_count,
  diags,                 \* diagnostics emitted by the latest call
  pc,                    \* position of the caller: parse, checked, packed, exit
  fault,                 \* "none", or the assertion / fatal error that ended the run
  nops,                  \* mutator calls made so far
  call,                  \* the latest symbol_get call a caller observed:
                         \* its key (NULL before any), loc and return value
  prec_nodes,            \* << >> (null), or the precedence graph nodes
  ngroups,               \* group nodes appended to prec_nodes
  nedges,                \* register_precedence, register_assoc calls so far
  markvector,            \* << >> (null), or the marks of depth_grouping
  dot,                   \* the lines print_rel_dot_graph wrote
  redg,                  \* << >>, or the matrix left by transitive_reduction
  used_assoc             \* << >> (null), or the marks of register_assoc

storeVars == << syms, types, nsyms, ntokens, nvars, errtoken, undeftoken,
                endtoken, accept, startsymbol, startsymbol_location,
                symbols_sorted,
                semantic_types_sorted, symbols, token_translations,
                max_user_token_number, code_props_none, dummy_count >>
graphVars == << prec_nodes, ngroups, nedges, redg, markvector, dot,
                used_assoc >>
vars == << storeVars, diags, pc, fault, nops, call, graphVars >>

(***************************************************************************)
(* Records.                                                                *)
(***************************************************************************)
\* code_props_none_init
code_props_none_init ==
  [ kind |-> "CODE_PROPS_NONE", code |-> NULL,
    location |-> empty_location, is_used |-> FALSE ]

\* A %destructor / %printer as handed over by the grammar parser.
code_props_user(code, loc) ==
  [ kind |-> "CODE_PROPS_SYMBOL_ACTION", code |-> code,
    location |-> loc, is_used |-> FALSE ]

Diag(sev, loc, msg, arg) ==
  [ severity |-> sev, location |-> loc, msg |-> msg, arg |-> arg ]

\* The part of the program state the mutators work on.
World ==
  [ syms |-> syms, types |-> types, nsyms |-> nsyms, ntokens |-> ntokens,
    nvars |-> nvars, endtoken |-> endtoken, none |-> code_props_none,
    diags |-> << >>, fault |-> "none" ]

Complain(w, sev, loc, msg, arg) ==
  [ w EXCEPT !.diags = Append(@, Diag(sev, loc, msg, arg)) ]

(***************************************************************************)
(* symbol_new, symbol_from_uniqstr                                         *)
(***************************************************************************)
\* symbol_new without the test of the first character.
symbol_new_any_dash(w, tag, loc) ==
  LET res == [ location |-> loc,
               type_name |-> NULL, type_location |-> empty_location,
               props |-> [ k \in Kinds |-> code_props_none_init ],
               number |-> NUMBER_UNDEFINED,
               prec |-> 0, assoc |-> "undef_assoc",
               prec_location |-> empty_location,
               user_token_number |-> USER_NUMBER_UNDEFINED,
               alias |-> NULL, class |-> "unknown_sym",
               status |-> "undeclared" ]
      w1 == IF tag \in DashTags
            THEN Complain(w, "Wyacc", loc,
                          "POSIX Yacc forbids dashes in symbol names", tag)
            ELSE w
  IN IF w.nsyms = SYMBOL_NUMBER_MAXIMUM
     THEN [ Complain(w1, "fatal", empty_location,
                     "too many symbols in input grammar", tag)
            EXCEPT !.fault = "fatal: too many symbols" ]
     ELSE [ w1 EXCEPT !.syms = (tag :> res) @@ @, !.nsyms = @ + 1 ]

symbol_new(w, tag, loc) ==
  LET res == [ location |-> loc,
               type_name |-> NULL, type_location |-> empty_location,
               props |-> [ k \in Kinds |-> code_props_none_init ],
               number |-> NUMBER_UNDEFINED,
               prec |-> 0, assoc |-> "undef_assoc",
               prec_location |-> empty_location,
               user_token_number |-> USER_NUMBER_UNDEFINED,
               alias |-> NULL, class |-> "unknown_sym",
               status |-> "undeclared" ]
      w1 == IF tag \notin QuotedTags /\ tag \in DashTags
            THEN Complain(w, "Wyacc", loc,
                          "POSIX Yacc forbids dashes in symbol names", tag)
            ELSE w
  IN IF w.nsyms = SYMBOL_NUMBER_MAXIMUM
     THEN [ Complain(w1, "fatal", empty_location,
                     "too many symbols in input grammar", tag)
            EXCEPT !.fault = "fatal: too many symbols" ]
     ELSE [ w1 EXCEPT !.syms = (tag :> res) @@ @, !.nsyms = @ + 1 ]

\* symbol_from_uniqstr without the lookup: every call makes a record.
symbol_from_uniqstr_no_lookup(w, sorted, key, loc) ==
  IF sorted # NULL /\ key \notin DOMAIN w.syms
  THEN [ w EXCEPT !.fault = "aver: !symbols_sorted" ]
  ELSE symbol_new(w, key, loc)

\* symbol_from_uniqstr without the assertion.
symbol_from_uniqstr_no_aver(w, sorted, key, loc) ==
  IF key \in DOMAIN w.syms THEN w ELSE symbol_new(w, key, loc)

\* hash_lookup, then aver (!symbols_sorted) and symbol_new on a miss.
symbol_from_uniqstr(w, sorted, key, loc) ==
  IF key \in DOMAIN w.syms
  THEN w
  ELSE IF sorted # NULL
       THEN [ w EXCEPT !.fault = "aver: !symbols_sorted" ]
       ELSE symbol_new(w, key, loc)

(***************************************************************************)
(* semantic_type_new, semantic_type_from_uniqstr                           *)
(***************************************************************************)
semantic_type_new(loc) ==
  [ location |-> loc, status |-> "undeclared",
    props |-> [ k \in Kinds |-> code_props_none_init ] ]

semantic_type_get(w, key, loc) ==
  IF key \in DOMAIN w.types
  THEN w
  ELSE [ w EXCEPT !.types = (key :> semantic_type_new(loc)) @@ @ ]

(***************************************************************************)
(* symbol_redeclaration                                                    *)
(***************************************************************************)
SUB_INDENT == 4

\* The note first, the complaint after it.
symbol_redeclaration_note_first(w, s, what, first, second) ==
  LET w1 == Complain(w, "complaint", first,
                     "previous declaration", << what, s, 0 + SUB_INDENT >>)
  IN Complain(w1, "complaint", second,
              "redeclaration for", << what, s, 0 >>)

symbol_redeclaration(w, s, what, first, second) ==
  LET w1 == Complain(w, "complaint", second,
                     "redeclaration for", << what, s, 0 >>)
  IN Complain(w1, "complaint", first,
              "previous declaration", << what, s, 0 + SUB_INDENT >>)

semantic_type_redeclaration(w, s, what, first, second) ==
  LET w1 == Complain(w, "complaint", second,
                     "redeclaration for <>", << what, s, 0 >>)
  IN Complain(w1, "complaint", first,
              "previous declaration", << what, s, 0 + SUB_INDENT >>)

(***************************************************************************)
(* semantic_type_code_props_set: type is the tag of a semantic type of the *)
(* table.                                                                  *)
(***************************************************************************)
code_props_type_string(kind) ==
  IF kind = "destructor" THEN "%destructor" ELSE "%printer"

semantic_type_code_props_set(w, type, kind, code) ==
  LET w1 == IF w.types[type].props[kind].code # NULL
            THEN semantic_type_redeclaration(
                   w, type, code_props_type_string(kind),
                   w.types[type].props[kind].location, code.location)
            ELSE w
  IN [ w1 EXCEPT !.types[type].props[kind] = code ]

(***************************************************************************)
(* symbol_type_set, symbol_code_props_set                                  *)
(***************************************************************************)
\* The first type kept when a second one is declared.
symbol_type_set_keep(w, sym, type_name, loc) ==
  IF type_name # NULL
  THEN IF w.syms[sym].type_name # NULL
       THEN symbol_redeclaration(w, sym, "%type",
                                 w.syms[sym].type_location, loc)
       ELSE [ w EXCEPT !.syms[sym].type_name = type_name,
                       !.syms[sym].type_location = loc ]
  ELSE w

symbol_type_set(w, sym, type_name, loc) ==
  IF type_name # NULL
  THEN LET w1 == IF w.syms[sym].type_name # NULL
                 THEN symbol_redeclaration(w, sym, "%type",
                                           w.syms[sym].type_location, loc)
                 ELSE w
       IN [ w1 EXCEPT !.syms[sym].type_name = type_name,
                      !.syms[sym].type_location = loc ]
  ELSE w

symbol_code_props_set(w, sym, kind, code) ==
  LET w1 == IF w.syms[sym].props[kind].code # NULL
            THEN symbol_redeclaration(w, sym, code_props_type_string(kind),
                                      w.syms[sym].props[kind].location,
                                      code.location)
            ELSE w
  IN [ w1 EXCEPT !.syms[sym].props[kind] = code ]

(***************************************************************************)
(* symbol_class_set, symbol_precedence_set                                 *)
(***************************************************************************)
\* symbol_class_set numbering a nonterminal only if it has no number yet.
symbol_class_set_once(w, sym, class, loc, declaring) ==
  LET s == w.syms[sym]
      warned == s.class # "unknown_sym" /\ s.class # class
      w1 == IF warned
            THEN Complain(w, "complaint", loc, "symbol redefined", sym)
            ELSE w
      fromVars == class = "nterm_sym" /\ s.number = NUMBER_UNDEFINED
      fromTokens == ~fromVars /\ class = "token_sym"
                    /\ s.number = NUMBER_UNDEFINED
      number == IF fromVars THEN w.nvars
                ELSE IF fromTokens THEN w.ntokens ELSE s.number
      w2 == [ w1 EXCEPT !.syms[sym].number = number,
                        !.syms[sym].class = class,
                        !.nvars = IF fromVars THEN @ + 1 ELSE @,
                        !.ntokens = IF fromTokens THEN @ + 1 ELSE @ ]
  IN IF declaring
     THEN LET w3 == IF s.status = "declared" /\ ~warned
                    THEN Complain(w2, "Wother", loc, "symbol redeclared", sym)
                    ELSE w2
          IN [ w3 EXCEPT !.syms[sym].status = "declared" ]
     ELSE w2

symbol_class_set(w, sym, class, loc, declaring) ==
  LET s == w.syms[sym]
      warned == s.class # "unknown_sym" /\ s.class # class
      w1 == IF warned
            THEN Complain(w, "complaint", loc, "symbol redefined", sym)
            ELSE w
      fromVars == class = "nterm_sym" /\ s.class # "nterm_sym"
      fromTokens == ~fromVars /\ class = "token_sym"
                    /\ s.number = NUMBER_UNDEFINED
      number == IF fromVars THEN w.nvars
                ELSE IF fromTokens THEN w.ntokens ELSE s.number
      w2 == [ w1 EXCEPT !.syms[sym].number = number,
                        !.syms[sym].class = class,
                        !.nvars = IF fromVars THEN @ + 1 ELSE @,
                        !.ntokens = IF fromTokens THEN @ + 1 ELSE @ ]
  IN IF declaring
     THEN LET w3 == IF s.status = "declared" /\ ~warned
                    THEN Complain(w2, "Wother", loc, "symbol redeclared", sym)
                    ELSE w2
          IN [ w3 EXCEPT !.syms[sym].status = "declared" ]
     ELSE w2

symbol_precedence_set(w, sym, prec, a, loc) ==
  LET w1 == IF a # "undef_assoc"
            THEN LET w0 == IF w.syms[sym].prec # 0
                           THEN symbol_redeclaration(w, sym, a,
                                  w.syms[sym].prec_location, loc)
                           ELSE w
                 IN [ w0 EXCEPT !.syms[sym].prec = prec,
                                !.syms[sym].assoc = a,
                                !.syms[sym].prec_location = loc ]
            ELSE w
  IN symbol_class_set(w1, sym, "token_sym", loc, FALSE)

(***************************************************************************)
(* symbol_user_token_number_set                                            *)
(***************************************************************************)
\* symbol_user_token_number_set always writing the symbol's own slot.
symbol_user_token_number_set_own(w, sym, user_token_number, loc) ==
  LET old == w.syms[sym].user_token_number
      w1 == IF old # USER_NUMBER_UNDEFINED /\ old # user_token_number
            THEN Complain(w, "complaint", loc,
                          "redefining user token number of", sym)
            ELSE w
      w2 == [ w1 EXCEPT !.syms[sym].user_token_number = user_token_number ]
  IN IF user_token_number = 0
     THEN [ w2 EXCEPT !.endtoken = sym,
                      !.ntokens = IF w2.syms[sym].number # NUMBER_UNDEFINED
                                  THEN @ - 1 ELSE @,
                      !.syms[sym].number = 0 ]
     ELSE w2

symbol_user_token_number_set(w, sym, user_token_number, loc) ==
  LET s == w.syms[sym]
      target == IF s.user_token_number # USER_NUMBER_HAS_STRING_ALIAS
                THEN sym ELSE s.alias
      old == w.syms[target].user_token_number
      w1 == IF old # USER_NUMBER_UNDEFINED /\ old # user_token_number
            THEN Complain(w, "complaint", loc,
                          "redefining user token number of", sym)
            ELSE w
      w2 == [ w1 EXCEPT !.syms[target].user_token_number = user_token_number ]
  IN IF user_token_number = 0
     THEN [ w2 EXCEPT !.endtoken = sym,
                      !.ntokens = IF w2.syms[sym].number # NUMBER_UNDEFINED
                                  THEN @ - 1 ELSE @,
                      !.syms[sym].number = 0 ]
     ELSE w2

(***************************************************************************)
(* symbol_make_alias                                                       *)
(***************************************************************************)
symbol_make_alias(w, sym, str, loc) ==
  IF w.syms[str].alias # NULL
  THEN Complain(w, "Wother", loc,
                "symbol used more than once as a literal string", str)
  ELSE IF w.syms[sym].alias # NULL
  THEN Complain(w, "Wother", loc,
                "symbol given more than one literal string", sym)
  ELSE LET s == w.syms[sym]
           w1 == [ w EXCEPT
                     !.syms[str].class = "token_sym",
                     !.syms[str].user_token_number = s.user_token_number,
                     !.syms[sym].user_token_number =
                        USER_NUMBER_HAS_STRING_ALIAS,
                     !.syms[str].alias = sym,
                     !.syms[sym].alias = str,
                     !.syms[str].number = s.number ]
       IN symbol_type_set(w1, str, s.type_name, loc)

(***************************************************************************)
(* symbol_code_props_get: the computed %destructor / %printer of SYM, as a *)
(* reference to the code_props that holds it.  semantic_type_get creates   *)
(* the semantic type it looks up when it does not exist yet.               *)
(***************************************************************************)
PropsRef(w, where, tag) == [ w |-> w, where |-> where, tag |-> tag ]

\* symbol_code_props_get applying the default props to every symbol.
symbol_code_props_get_any_symbol(w, errtok, sym, kind) ==
  LET s == w.syms[sym] IN
  IF s.props[kind].code # NULL
  THEN PropsRef(w, "symbol", sym)
  ELSE
    LET w1 == IF s.type_name # NULL
              THEN semantic_type_get(w, s.type_name, empty_location)
              ELSE w
    IN IF s.type_name # NULL /\ w1.types[s.type_name].props[kind].code # NULL
       THEN PropsRef(w1, "type", s.type_name)
       ELSE LET dflt == IF s.type_name # NULL THEN "*" ELSE ""
                w2 == semantic_type_get(w1, dflt, empty_location)
            IN IF w2.types[dflt].props[kind].code # NULL
               THEN PropsRef(w2, "type", dflt)
               ELSE PropsRef(w2, "none", NULL)

symbol_code_props_get(w, errtok, sym, kind) ==
  LET s == w.syms[sym] IN
  IF s.props[kind].code # NULL
  THEN PropsRef(w, "symbol", sym)
  ELSE
    LET w1 == IF s.type_name # NULL
              THEN semantic_type_get(w, s.type_name, empty_location)
              ELSE w
    IN IF s.type_name # NULL /\ w1.types[s.type_name].props[kind].code # NULL
       THEN PropsRef(w1, "type", s.type_name)
       ELSE IF sym \notin DollarTags /\ sym # errtok
       THEN LET dflt == IF s.type_name # NULL THEN "*" ELSE ""
                w2 == semantic_type_get(w1, dflt, empty_location)
            IN IF w2.types[dflt].props[kind].code # NULL
               THEN PropsRef(w2, "type", dflt)
               ELSE PropsRef(w2, "none", NULL)
       ELSE PropsRef(w1, "none", NULL)

\* symbol_code_props_get (sym, i)->is_used = true
mark_is_used(w, errtok, sym, kind) ==
  LET r == symbol_code_props_get(w, errtok, sym, kind) IN
  IF r.where = "symbol"
  THEN [ r.w EXCEPT !.syms[r.tag].props[kind].is_used = TRUE ]
  ELSE IF r.where = "type"
  THEN [ r.w EXCEPT !.types[r.tag].props[kind].is_used = TRUE ]
  ELSE [ r.w EXCEPT !.none.is_used = TRUE ]

(***************************************************************************)
(* symbol_check_defined, semantic_type_check_defined                       *)
(***************************************************************************)
symbol_check_defined(w, errtok, sym) ==
  LET s == w.syms[sym]
      w1 == IF s.class = "unknown_sym"
            THEN IF s.status = "declared"
                 THEN [ w EXCEPT !.fault = "assert: status != declared" ]
                 ELSE [ Complain(w,
                          IF s.status = "needed" THEN "complaint" ELSE "Wother",
                          s.location,
                          "symbol is used, but is not defined as a token and has no rules",
                          sym)
                        EXCEPT !.syms[sym].class = "nterm_sym",
                               !.syms[sym].number = w.nvars,
                               !.nvars = @ + 1 ]
            ELSE w
      w2 == mark_is_used(w1, errtok, sym, "destructor")
      w3 == mark_is_used(w2, errtok, sym, "printer")
  IN IF w1.fault # "none" THEN w1
     ELSE IF s.type_name # NULL
     THEN [ semantic_type_get(w3, s.type_name, empty_location)
            EXCEPT !.types[s.type_name].status = "declared" ]
     ELSE w3

\* semantic_type_check_defined looking for useless props in the declared
\* types only.
semantic_type_check_defined_declared_only(w, tag) ==
  LET t == w.types[tag]
      useless(kind) ==
        t.props[kind].kind # "CODE_PROPS_NONE" /\ ~t.props[kind].is_used
      w1 == IF useless("destructor")
            THEN Complain(w, "Wother", t.location, "useless for type",
                          << "%destructor", tag >>)
            ELSE w
      w2 == IF useless("printer")
            THEN Complain(w1, "Wother", t.location, "useless for type",
                          << "%printer", tag >>)
            ELSE w1
  IN IF t.status = "declared"
     THEN w2
     ELSE IF tag = "" \/ tag = "*"
     THEN w
     ELSE Complain(w, "Wother", t.location,
                   "type is used, but is not associated to any symbol", tag)

semantic_type_check_defined(w, tag) ==
  LET t == w.types[tag]
      useless(kind) ==
        t.props[kind].kind # "CODE_PROPS_NONE" /\ ~t.props[kind].is_used
      w1 == IF useless("destructor")
            THEN Complain(w, "Wother", t.location, "useless for type",
                          << "%destructor", tag >>)
            ELSE w
      w2 == IF useless("printer")
            THEN Complain(w1, "Wother", t.location, "useless for type",
                          << "%printer", tag >>)
            ELSE w1
  IN IF t.status = "declared" \/ tag = "" \/ tag = "*"
     THEN w2
     ELSE Complain(w, "Wother", t.location,
                   "type is used, but is not associated to any symbol", tag)

(***************************************************************************)
(* symbols_do: sort the table by tag on the first call (qsort with         *)
(* symbols_cmp = strcmp), then run the processor on every entry in order.  *)
(***************************************************************************)
InStore(store, t) == t \in DOMAIN store

symbols_cmp_sort(order, store) ==
  SelectSeq(order, LAMBDA t : InStore(store, t))

RECURSIVE do_check_defined(_, _, _, _)
do_check_defined(w, errtok, sorted, i) ==
  IF i > Len(sorted) \/ w.fault # "none"
  THEN w
  ELSE do_check_defined(symbol_check_defined(w, errtok, sorted[i]),
                        errtok, sorted, i + 1)

RECURSIVE do_type_check_defined(_, _, _)
do_type_check_defined(w, sorted, i) ==
  IF i > Len(sorted)
  THEN w
  ELSE do_type_check_defined(semantic_type_check_defined(w, sorted[i]),
                             sorted, i + 1)

\* symbols_check_defined: both sweeps.  The symbol sweep runs over the
\* entries counted and sorted before it starts; the type sweep over the
\* types present once the symbol sweep is done.
symbols_check_defined(w, errtok, sorted) ==
  LET w1 == do_check_defined(w, errtok, sorted, 1)
  IN IF w1.fault # "none" THEN w1
     ELSE do_type_check_defined(w1, symbols_cmp_sort(TypeOrder, w1.types), 1)

(***************************************************************************)
(* symbol_check_alias_consistency                                          *)
(***************************************************************************)
\* The copy made only into a side that has no code.
alias_props_one_side(w, sym, str, kind) ==
  IF w.syms[str].props[kind].code # NULL
  THEN IF w.syms[sym].props[kind].code # NULL
       THEN w
       ELSE symbol_code_props_set(w, sym, kind, w.syms[str].props[kind])
  ELSE IF w.syms[sym].props[kind].code # NULL
  THEN symbol_code_props_set(w, str, kind, w.syms[sym].props[kind])
  ELSE w

alias_props(w, sym, str, kind) ==
  IF w.syms[str].props[kind].code # NULL
  THEN symbol_code_props_set(w, sym, kind, w.syms[str].props[kind])
  ELSE IF w.syms[sym].props[kind].code # NULL
  THEN symbol_code_props_set(w, str, kind, w.syms[sym].props[kind])
  ELSE w

symbol_check_alias_consistency(w, this) ==
  LET sym == this
      str == w.syms[this].alias
  IN IF ~(str # NULL
          /\ w.syms[this].user_token_number = USER_NUMBER_HAS_STRING_ALIAS)
     THEN w
     ELSE
       LET w1 == IF w.syms[str].type_name # w.syms[sym].type_name
                 THEN IF w.syms[str].type_name # NULL
                      THEN symbol_type_set(w, sym, w.syms[str].type_name,
                                           w.syms[str].type_location)
                      ELSE symbol_type_set(w, str, w.syms[sym].type_name,
                                           w.syms[sym].type_location)
                 ELSE w
           w2 == alias_props(w1, sym, str, "destructor")
           w3 == alias_props(w2, sym, str, "printer")
       IN IF w3.syms[sym].prec # 0 \/ w3.syms[str].prec # 0
          THEN IF w3.syms[str].prec # 0
               THEN symbol_precedence_set(w3, sym, w3.syms[str].prec,
                                          w3.syms[str].assoc,
                                          w3.syms[str].prec_location)
               ELSE symbol_precedence_set(w3, str, w3.syms[sym].prec,
                                          w3.syms[sym].assoc,
                                          w3.syms[sym].prec_location)
          ELSE w3

RECURSIVE do_check_alias_consistency(_, _, _)
do_check_alias_consistency(w, sorted, i) ==
  IF i > Len(sorted)
  THEN w
  ELSE do_check_alias_consistency(
         symbol_check_alias_consistency(w, sorted[i]), sorted, i + 1)

(***************************************************************************)
(* symbol_pack.  vec is the symbols vector (slot i is vec[i + 1]).  A      *)
(* store outside the vector is undefined behaviour: with ub = "crash" the  *)
(* run dies there, with ub = "benign" the store lands outside the vector   *)
(* and the run goes on.                                                    *)
(***************************************************************************)
UBOutcomes == { "crash", "benign" }

PackState(w, vec) == [ w |-> w, vec |-> vec ]

symbol_pack_index(number, ntok) == number + ntok

symbol_pack(p, this, ub) ==
  LET s == p.w.syms[this] IN
  IF s.number = NUMBER_UNDEFINED
  THEN [ p EXCEPT !.w.fault = "aver: number != NUMBER_UNDEFINED" ]
  ELSE IF s.class # "nterm_sym"
          /\ s.user_token_number = USER_NUMBER_HAS_STRING_ALIAS
  THEN p
  ELSE LET number == IF s.class = "nterm_sym"
                     THEN symbol_pack_index(s.number, p.w.ntokens)
                     ELSE s.number
           p1 == [ p EXCEPT !.w.syms[this].number = number ]
       IN IF number \in 0..(Len(p.vec) - 1)
          THEN [ p1 EXCEPT !.vec[number + 1] = this ]
          ELSE IF ub = "crash"
          THEN [ p1 EXCEPT !.w.fault = "out-of-bounds write to symbols" ]
          ELSE p1

RECURSIVE do_pack(_, _, _, _)
do_pack(p, sorted, i, ub) ==
  IF i > Len(sorted) \/ p.w.fault # "none"
  THEN p
  ELSE do_pack(symbol_pack(p, sorted[i], ub), sorted, i + 1, ub)

(***************************************************************************)
(* The compaction loop of symbols_pack: "aliases leave empty slots".       *)
(***************************************************************************)
compact_renumber(w, this, writei) ==
  LET w1 == [ w EXCEPT !.syms[this].number = writei ]
  IN IF w1.syms[this].alias # NULL
     THEN [ w1 EXCEPT !.syms[w1.syms[this].alias].number = writei ]
     ELSE w1

RECURSIVE compact(_, _, _, _)
compact(p, nsyms_old, readi, writei) ==
  IF readi >= nsyms_old
  THEN p
  ELSE IF p.vec[readi + 1] = NULL
  THEN compact([ p EXCEPT !.w.nsyms = @ - 1, !.w.ntokens = @ - 1 ],
               nsyms_old, readi + 1, writei)
  ELSE LET this == p.vec[readi + 1]
           p1 == [ p EXCEPT !.vec[writei + 1] = this,
                            !.w = compact_renumber(p.w, this, writei) ]
       IN compact(p1, nsyms_old, readi + 1, writei + 1)

(***************************************************************************)
(* Reads of symbols[i] after the vector was shrunk to n slots by xnrealloc.*)
(* A read past the end is undefined behaviour: with ub = "crash" the run   *)
(* dies, with ub = "benign" it sees what the old block still holds there   *)
(* (and dies on a null or unallocated slot).                               *)
(***************************************************************************)
CRASH == "<crash>"

read_symbols(vec, n, i, ub) ==
  IF i \in 0..(n - 1)
  THEN vec[i + 1]
  ELSE IF ub = "benign" /\ i \in 0..(Len(vec) - 1) /\ vec[i + 1] # NULL
  THEN vec[i + 1]
  ELSE CRASH

(***************************************************************************)
(* symbols_token_translations_init: the two loops over symbols[0..ntokens) *)
(***************************************************************************)
TransState(w, max, avail) ==
  [ w |-> w, max |-> max, num_256_available_p |-> avail ]

RECURSIVE find_max_user_token_number(_, _, _, _)
find_max_user_token_number(t, vec, i, ub) ==
  IF i >= t.w.ntokens \/ t.w.fault # "none"
  THEN t
  ELSE LET this == read_symbols(vec, t.w.nsyms, i, ub) IN
       IF this = CRASH
       THEN [ t EXCEPT !.w.fault = "out-of-bounds read of symbols" ]
       ELSE LET u == t.w.syms[this].user_token_number
                t1 == IF u # USER_NUMBER_UNDEFINED
                      THEN [ t EXCEPT
                               !.max = IF u > @ THEN u ELSE @,
                               !.num_256_available_p =
                                  IF u = 256 THEN FALSE ELSE @ ]
                      ELSE t
            IN find_max_user_token_number(t1, vec, i + 1, ub)

RECURSIVE set_missing_user_numbers(_, _, _, _)
set_missing_user_numbers(t, vec, i, ub) ==
  IF i >= t.w.ntokens \/ t.w.fault # "none"
  THEN t
  ELSE LET this == read_symbols(vec, t.w.nsyms, i, ub) IN
       IF this = CRASH
       THEN [ t EXCEPT !.w.fault = "out-of-bounds read of symbols" ]
       ELSE LET t1 == IF t.w.syms[this].user_token_number
                         = USER_NUMBER_UNDEFINED
                      THEN [ t EXCEPT
                               !.max = @ + 1,
                               !.w.syms[this].user_token_number = t.max + 1 ]
                      ELSE t
                u == t1.w.syms[this].user_token_number
                t2 == IF u > t1.max THEN [ t1 EXCEPT !.max = u ] ELSE t1
            IN set_missing_user_numbers(t2, vec, i + 1, ub)

(***************************************************************************)
(* user_token_number_redeclaration, symbol_translation                     *)
(***************************************************************************)
location_cmp(a, b) == IF a < b THEN -1 ELSE IF a > b THEN 1 ELSE 0

user_token_number_redeclaration(w, num, first, second) ==
  LET swap == location_cmp(w.syms[first].location,
                           w.syms[second].location) > 0
      f == IF swap THEN second ELSE first
      g == IF swap THEN first ELSE second
      w1 == Complain(w, "complaint", w.syms[g].location,
                     "user token number redeclaration for", << num, g, 0 >>)
  IN Complain(w1, "complaint", w.syms[f].location,
              "previous declaration for", << num, f, 0 + SUB_INDENT >>)

\* The vector token_translations[0 .. size-1], kept as the value every slot
\* was initialised with and the slots written since.
tt_new(size, init) == [ size |-> size, init |-> init, set |-> << >> ]
tt_at(tt, u) == IF u \in DOMAIN tt.set THEN tt.set[u] ELSE tt.init
\* tt_put storing the number one too high.
tt_put_slip(tt, u, v) == [ tt EXCEPT !.set = (u :> (v + 1)) @@ @ ]
tt_put(tt, u, v) == [ tt EXCEPT !.set = (u :> v) @@ @ ]

\* tr is [w, tt]: tt is token_translations.
symbol_translation(tr, this, undeftok, vec, ub) ==
  LET s == tr.w.syms[this]
      u == s.user_token_number
  IN
  IF s.class = "token_sym" /\ u # USER_NUMBER_HAS_STRING_ALIAS
  THEN IF u \notin 0..(tr.tt.size - 1)
       THEN IF ub = "crash"
            THEN [ tr EXCEPT !.w.fault =
                     "out-of-bounds access to token_translations" ]
            ELSE tr
       ELSE LET w1 ==
                  IF tt_at(tr.tt, u) # tr.w.syms[undeftok].number
                  THEN LET first ==
                             read_symbols(vec, tr.w.nsyms, tt_at(tr.tt, u), ub)
                       IN IF first = CRASH
                          THEN [ tr.w EXCEPT !.fault =
                                   "out-of-bounds read of symbols" ]
                          ELSE user_token_number_redeclaration(
                                 tr.w, u, first, this)
                  ELSE tr.w
            IN IF w1.fault # "none"
               THEN [ tr EXCEPT !.w = w1 ]
               ELSE [ tr EXCEPT !.w = w1, !.tt = tt_put(@, u, s.number) ]
  ELSE tr

RECURSIVE do_translation(_, _, _, _, _, _)
do_translation(tr, sorted, i, undeftok, vec, ub) ==
  IF i > Len(sorted) \/ tr.w.fault # "none"
  THEN tr
  ELSE do_translation(symbol_translation(tr, sorted[i], undeftok, vec, ub),
                      sorted, i + 1, undeftok, vec, ub)

\* translations_error_256 without the test of num_256_available_p.
translations_error_256_always(t, errtok) ==
  IF t.w.syms[errtok].user_token_number = USER_NUMBER_UNDEFINED
  THEN [ t EXCEPT !.w.syms[errtok].user_token_number = 256 ]
  ELSE t

\* If 256 is not used, assign it to error, to follow POSIX.
translations_error_256(t, errtok) ==
  IF t.num_256_available_p
     /\ t.w.syms[errtok].user_token_number = USER_NUMBER_UNDEFINED
  THEN [ t EXCEPT !.w.syms[errtok].user_token_number = 256 ]
  ELSE t

\* if (max_user_token_number < 256) max_user_token_number = 256;
translations_max_256(t) ==
  IF t.max < 256 THEN [ t EXCEPT !.max = 256 ] ELSE t

\* translations_result taking the size of token_translations for
\* max_user_token_number.
translations_result_size(tr, max) ==
  [ w |-> tr.w, max |-> max + 1, tt |-> tr.tt ]

\* The record returned once the symbol_translation sweep has left tr.
translations_result(tr, max) ==
  [ w |-> tr.w, max |-> max, tt |-> tr.tt ]

\* The allocation, the initialisation to undeftoken->number and the
\* symbol_translation sweep, for the state t4 left by the two loops.
translations_fill(t4, undeftok, sorted, vec, ub) ==
  IF t4.w.fault # "none"
  THEN [ w |-> t4.w, max |-> t4.max, tt |-> NULL ]
  ELSE translations_result(
         do_translation(
           [ w |-> t4.w,
             tt |-> tt_new(t4.max + 1, t4.w.syms[undeftok].number) ],
           sorted, 1, undeftok, vec, ub),
         t4.max)

\* What follows the first loop, which left t1.
translations_after_max(t1, errtok, undeftok, sorted, vec, ub) ==
  IF t1.w.fault # "none"
  THEN [ w |-> t1.w, max |-> t1.max, tt |-> NULL ]
  ELSE translations_fill(
         set_missing_user_numbers(
           translations_max_256(translations_error_256(t1, errtok)),
           vec, 0, ub),
         undeftok, sorted, vec, ub)

\* The result of symbols_token_translations_init: [w, max, tt].
symbols_token_translations_init(w, errtok, undeftok, sorted, vec, ub) ==
  translations_after_max(
    find_max_user_token_number(TransState(w, 0, TRUE), vec, 0, ub),
    errtok, undeftok, sorted, vec, ub)

(***************************************************************************)
(* symbols_pack                                                            *)
(***************************************************************************)
\* The checks of the start symbol, t being the result of
\* symbols_token_translations_init and packed the reallocated vector.
\* The check without its else branch: a token goes unnoticed.
pack_check_start_no_token(t, packed, start, start_loc) ==
  IF t.w.fault = "none" /\ t.w.syms[start].class = "unknown_sym"
  THEN [ w |-> [ Complain(t.w, "fatal", start_loc,
                          "the start symbol is undefined", start)
                 EXCEPT !.fault = "fatal: start symbol undefined" ],
         vec |-> packed, max |-> t.max, tt |-> t.tt ]
  ELSE [ w |-> t.w, vec |-> packed, max |-> t.max, tt |-> t.tt ]

pack_check_start(t, packed, start, start_loc) ==
  IF t.w.fault # "none"
  THEN [ w |-> t.w, vec |-> packed, max |-> t.max, tt |-> t.tt ]
  ELSE IF t.w.syms[start].class = "unknown_sym"
  THEN [ w |-> [ Complain(t.w, "fatal", start_loc,
                          "the start symbol is undefined", start)
                 EXCEPT !.fault = "fatal: start symbol undefined" ],
         vec |-> packed, max |-> t.max, tt |-> t.tt ]
  ELSE IF t.w.syms[start].class = "token_sym"
  THEN [ w |-> [ Complain(t.w, "fatal", start_loc,
                          "the start symbol is a token", start)
                 EXCEPT !.fault = "fatal: start symbol is a token" ],
         vec |-> packed, max |-> t.max, tt |-> t.tt ]
  ELSE [ w |-> t.w, vec |-> packed, max |-> t.max, tt |-> t.tt ]

\* xnrealloc, symbols_token_translations_init and the start symbol checks,
\* p2 being the state the compaction loop left.
pack_translate(p2, errtok, undeftok, start, start_loc, sorted, ub) ==
  pack_check_start(
    symbols_token_translations_init(p2.w, errtok, undeftok, sorted,
                                    p2.vec, ub),
    SubSeq(p2.vec, 1, p2.w.nsyms), start, start_loc)

\* The compaction loop and what follows, p1 being the state the
\* symbol_pack sweep left and nsyms_old the size of the vector.
pack_compact(p1, nsyms_old, errtok, undeftok, start, start_loc, sorted, ub) ==
  IF p1.w.fault # "none"
  THEN [ w |-> p1.w, vec |-> NULL, max |-> 0, tt |-> NULL ]
  ELSE pack_translate(compact(p1, nsyms_old, 0, 0),
                      errtok, undeftok, start, start_loc, sorted, ub)

\* xcalloc and the symbol_pack sweep, w1 being the state the alias
\* consistency sweep left.
pack_sweep(w1, errtok, undeftok, start, start_loc, sorted, ub) ==
  pack_compact(
    do_pack(PackState(w1, [ i \in 1..w1.nsyms |-> NULL ]), sorted, 1, ub),
    w1.nsyms, errtok, undeftok, start, start_loc, sorted, ub)

\* The result: [w, vec, max, tt].
symbols_pack(w, errtok, undeftok, start, start_loc, sorted, ub) ==
  pack_sweep(do_check_alias_consistency(w, sorted, 1),
             errtok, undeftok, start, start_loc, sorted, ub)

(***************************************************************************)
(* The state after construction: symbols_new makes the tables, and the     *)
(* reader creates $accept, error and $undefined before the grammar is      *)
(* parsed; number 0 of the tokens is reserved for the end token.           *)
(***************************************************************************)
EmptyWorld ==
  [ syms |-> << >>, types |-> << >>, nsyms |-> 0, ntokens |-> 1,
    nvars |-> 0, endtoken |-> NULL, none |-> code_props_none_init,
    diags |-> << >>, fault |-> "none" ]

\* sym->class = class; sym->number = counter++ as the reader does for the
\* distinguished symbols.
reader_predefine(w, tag, class) ==
  LET w1 == symbol_new(w, tag, empty_location) IN
  [ w1 EXCEPT !.syms[tag].class = class,
              !.syms[tag].number =
                 IF class = "nterm_sym" THEN w1.nvars ELSE w1.ntokens,
              !.nvars = IF class = "nterm_sym" THEN @ + 1 ELSE @,
              !.ntokens = IF class = "token_sym" THEN @ + 1 ELSE @ ]

ReaderWorld ==
  reader_predefine(
    reader_predefine(
      reader_predefine(EmptyWorld, "$accept", "nterm_sym"),
      "error", "token_sym"),
    "$undefined", "token_sym")

\* If the grammar did not define the end token, the reader creates $end
\* as token number 0 with user number 0 before symbols_check_defined.
reader_define_endtoken(w, sorted) ==
  IF w.endtoken # NULL
  THEN w
  ELSE LET w1 == symbol_from_uniqstr(w, sorted, "$end", empty_location)
       IN IF w1.fault # "none" THEN w1
          ELSE [ w1 EXCEPT !.endtoken = "$end",
                           !.syms["$end"].class = "token_sym",
                           !.syms["$end"].number = 0,
                           !.syms["$end"].user_token_number = 0 ]

InitStore ==
  /\ syms = ReaderWorld.syms
  /\ types = ReaderWorld.types
  /\ nsyms = ReaderWorld.nsyms
  /\ ntokens = ReaderWorld.ntokens
  /\ nvars = ReaderWorld.nvars
  /\ errtoken = "error"
  /\ undeftoken = "$undefined"
  /\ endtoken = NULL
  /\ accept = "$accept"
  /\ startsymbol = NULL
  /\ startsymbol_location = empty_location
  /\ symbols_sorted = NULL
  /\ semantic_types_sorted = NULL
  /\ symbols = NULL
  /\ token_translations = NULL
  /\ max_user_token_number = 0
  /\ code_props_none = code_props_none_init
  /\ dummy_count = 0
  /\ diags = << >>
  /\ pc = "parse"
  /\ fault = "none"
  /\ nops = 0
  /\ call = [ key |-> NULL, loc |-> empty_location, ret |-> NULL ]

InitGraph ==
  /\ prec_nodes = << >>
  /\ ngroups = 0
  /\ nedges = 0
  /\ redg = << >>
  /\ markvector = << >>
  /\ dot = << >>
  /\ used_assoc = << >>

Init == InitStore /\ InitGraph

(***************************************************************************)
(* Actions of the symbol store.                                            *)
(***************************************************************************)
\* Write a world back to the variables; a failed assertion or a fatal
\* complaint ends the run.
Commit(w) ==
  /\ syms' = w.syms
  /\ types' = w.types
  /\ nsyms' = w.nsyms
  /\ ntokens' = w.ntokens
  /\ nvars' = w.nvars
  /\ endtoken' = w.endtoken
  /\ code_props_none' = w.none
  /\ diags' = w.diags
  /\ fault' = w.fault
  /\ pc' = IF w.fault # "none" THEN "exit" ELSE pc

Running == pc # "exit"
Parsing == pc = "parse" /\ nops < MaxOps
\* The symbols the grammar can name: the scanner never yields a '$' tag.
Known == DOMAIN syms \ DollarTags

finalVars == << symbols_sorted, semantic_types_sorted, symbols,
                token_translations, max_user_token_number >>
idVars == << errtoken, undeftoken, accept, startsymbol,
             startsymbol_location >>

\* symbol_get (key, loc), its return value dropped.
SymbolGet(key, loc) ==
  /\ Running
  /\ \E w \in { symbol_from_uniqstr(World, symbols_sorted, key, loc) } :
       Commit(w)
  /\ UNCHANGED << finalVars, idVars, dummy_count, nops, call, graphVars >>

\* symbol_get (key, loc) with the call and its return value observed; a
\* failed aver aborts and returns nothing.
SymbolGetCall(key, loc) ==
  /\ Running
  /\ \E w \in { symbol_from_uniqstr(World, symbols_sorted, key, loc) } :
       /\ Commit(w)
       /\ call' = [ key |-> key, loc |-> loc,
                    ret |-> IF w.fault = "none" THEN key ELSE NULL ]
  /\ UNCHANGED << finalVars, idVars, dummy_count, nops, graphVars >>

dummy_symbol_get(w, sorted, tag, loc) ==
  LET w1 == symbol_from_uniqstr(w, sorted, tag, loc)
  IN IF w1.fault # "none"
     THEN w1
     ELSE [ w1 EXCEPT !.syms[tag].class = "nterm_sym",
                      !.syms[tag].number = w1.nvars,
                      !.nvars = @ + 1 ]

\* dummy_symbol_get (loc)
DummySymbolGet(loc) ==
  /\ Running
  /\ dummy_count < MaxDummy
  /\ \E w \in { dummy_symbol_get(World, symbols_sorted,
                                   DummyTag(dummy_count + 1), loc) } :
       Commit(w)
  /\ dummy_count' = dummy_count + 1
  /\ UNCHANGED << finalVars, idVars, nops, call, graphVars >>

Mutator(w) ==
  /\ \E x \in { w } : Commit(x)
  /\ nops' = nops + 1
  /\ UNCHANGED << finalVars, idVars, dummy_count, call, graphVars >>

SymbolTypeSet(sym, type_name, loc) ==
  /\ Parsing
  /\ sym \in Known
  /\ Mutator(symbol_type_set(World, sym, type_name, loc))

SymbolCodePropsSet(sym, kind, code, loc) ==
  /\ Parsing
  /\ sym \in Known
  /\ Mutator(symbol_code_props_set(World, sym, kind,
                                   code_props_user(code, loc)))

\* %destructor / %printer for a semantic type: semantic_type_get (tag,
\* &loc), then semantic_type_code_props_set.
SemanticTypeCodePropsSet(tag, kind, code, loc) ==
  /\ Parsing
  /\ Mutator(semantic_type_code_props_set(
               semantic_type_get(World, tag, loc), tag, kind,
               code_props_user(code, loc)))

\* symbol_code_props_get (sym, kind), its return value observed as the
\* place of the code_props it points to.
SymbolCodePropsGet(sym, kind) ==
  /\ Running
  /\ sym \in DOMAIN syms
  /\ \E r \in { symbol_code_props_get(World, errtoken, sym, kind) } :
       /\ Commit(r.w)
       /\ call' = [ key |-> sym, loc |-> empty_location, kind |-> kind,
                    ret |-> << r.where, r.tag >> ]
  /\ UNCHANGED << finalVars, idVars, dummy_count, nops, graphVars >>

SymbolClassSet(sym, class, loc, declaring) ==
  /\ Parsing
  /\ sym \in Known
  /\ Mutator(symbol_class_set(World, sym, class, loc, declaring))

SymbolPrecedenceSet(sym, prec, a, loc) ==
  /\ Parsing
  /\ sym \in Known
  /\ Mutator(symbol_precedence_set(World, sym, prec, a, loc))

SymbolUserTokenNumberSet(sym, n, loc) ==
  /\ Parsing
  /\ sym \in Known
  /\ Mutator(symbol_user_token_number_set(World, sym, n, loc))

SymbolMakeAlias(sym, str, loc) ==
  /\ Parsing
  /\ sym \in Known \ QuotedTags
  /\ str \in Known \cap QuotedTags
  /\ Mutator(symbol_make_alias(World, sym, str, loc))

\* A token declared with its user number, as one declaration of the
\* grammar: symbol_class_set (sym, token_sym, loc, true), then
\* symbol_user_token_number_set (sym, n, loc).
DeclareToken(sym, n, loc) ==
  /\ Parsing
  /\ sym \in Known
  /\ Mutator(symbol_user_token_number_set(
               symbol_class_set(World, sym, "token_sym", loc, TRUE),
               sym, n, loc))

\* Without %start the reader takes the left-hand side of the first rule,
\* between symbols_check_defined and symbols_pack.
ReaderFindStartSymbol(sym, loc) ==
  /\ pc = "checked"
  /\ startsymbol = NULL
  /\ sym \in Known \ QuotedTags
  /\ startsymbol' = sym
  /\ startsymbol_location' = loc
  /\ diags' = << >>
  /\ UNCHANGED << syms, types, nsyms, ntokens, nvars, errtoken, undeftoken,
                  endtoken, accept, finalVars, code_props_none, dummy_count,
                  pc, fault, nops, call, graphVars >>

\* The reader's end of parse: define $end if need be, then
\* symbols_check_defined, whose first symbols_do sorts the tables.
SymbolsCheckDefined ==
  /\ pc = "parse"
  /\ \E w0 \in { reader_define_endtoken(World, symbols_sorted) } :
     \E sorted \in { symbols_cmp_sort(TagOrder, w0.syms) } :
     \E w \in { symbols_check_defined(w0, errtoken, sorted) } :
        /\ syms' = w.syms
        /\ types' = w.types
        /\ nsyms' = w.nsyms
        /\ ntokens' = w.ntokens
        /\ nvars' = w.nvars
        /\ endtoken' = w.endtoken
        /\ code_props_none' = w.none
        /\ diags' = w.diags
        /\ fault' = w.fault
        /\ pc' = IF w.fault # "none" THEN "exit" ELSE "checked"
        /\ symbols_sorted' = sorted
        /\ semantic_types_sorted' = symbols_cmp_sort(TypeOrder, w.types)
  /\ UNCHANGED << symbols, token_translations, max_user_token_number,
                  idVars, dummy_count, nops, call, graphVars >>

\* symbols_pack
SymbolsPack(ub) ==
  /\ pc = "checked"
  /\ startsymbol # NULL
  /\ \E r \in { symbols_pack(World, errtoken, undeftoken, startsymbol,
                                startsymbol_location, symbols_sorted, ub) } :
        /\ syms' = r.w.syms
        /\ types' = r.w.types
        /\ nsyms' = r.w.nsyms
        /\ ntokens' = r.w.ntokens
        /\ nvars' = r.w.nvars
        /\ endtoken' = r.w.endtoken
        /\ code_props_none' = r.w.none
        /\ diags' = r.w.diags
        /\ fault' = r.w.fault
        /\ pc' = IF r.w.fault # "none" THEN "exit" ELSE "packed"
        /\ symbols' = r.vec
        /\ token_translations' = r.tt
        /\ max_user_token_number' = r.max
  /\ UNCHANGED << symbols_sorted, semantic_types_sorted, idVars,
                  dummy_count, nops, call, graphVars >>

(***************************************************************************)
(* The precedence graph.  prec_nodes[i + 1] is the node of id i; succ and  *)
(* pred are the linked lists of ids, first link first.                     *)
(***************************************************************************)
\* The null pointer to a node, where a node is named by its id.
NoNode == -1

\* xmalloc leaves the symbols field of a symbol node unset; it is read of
\* group nodes only, whose create_group sets it.
init_prec_nodes(n) ==
  [ i \in 1..n |->
      [ id |-> i - 1, succ |-> << >>, pred |-> << >>, groupnext |-> NoNode,
        symbols |-> NoNode, indegree |-> 0, outdegree |-> 0 ] ]

\* while (slist->next && slist->next->id <= sym) slist = slist->next;
RECURSIVE slist_advance(_, _, _)
slist_advance(list, p, sym) ==
  IF p < Len(list) /\ list[p + 1] <= sym
  THEN slist_advance(list, p + 1, sym)
  ELSE p

\* register_precedence_second_symbol without the test of a relation
\* already present.
register_precedence_second_symbol_dup(first, sym) ==
  IF first = << >> \/ sym < first[1]
  THEN [ first |-> << sym >> \o first, new |-> TRUE ]
  ELSE [ first |-> SubSeq(first, 1, slist_advance(first, 1, sym))
                     \o << sym >>
                     \o SubSeq(first, slist_advance(first, 1, sym) + 1,
                               Len(first)),
         new |-> TRUE ]

\* The result: the list, and whether the relation is new.
register_precedence_second_symbol(first, sym) ==
  IF first = << >> \/ sym < first[1]
  THEN [ first |-> << sym >> \o first, new |-> TRUE ]
  ELSE LET p == slist_advance(first, 1, sym) IN
       IF first[p] = sym
       THEN [ first |-> first, new |-> FALSE ]
       ELSE [ first |-> SubSeq(first, 1, p) \o << sym >>
                          \o SubSeq(first, p + 1, Len(first)),
              new |-> TRUE ]

\* register_precedence without the second call: pred is not updated.
register_precedence_no_pred(nodes, n, first, snd) ==
  LET nodes0 == IF nodes = << >> THEN init_prec_nodes(n) ELSE nodes
      r1 == register_precedence_second_symbol(nodes0[first + 1].succ, snd)
  IN [ nodes0 EXCEPT
         ![first + 1].succ = r1.first,
         ![first + 1].outdegree = IF r1.new THEN @ + 1 ELSE @ ]

register_precedence(nodes, n, first, snd) ==
  LET nodes0 == IF nodes = << >> THEN init_prec_nodes(n) ELSE nodes
      r1 == register_precedence_second_symbol(nodes0[first + 1].succ, snd)
      nodes1 == [ nodes0 EXCEPT
                    ![first + 1].succ = r1.first,
                    ![first + 1].outdegree = IF r1.new THEN @ + 1 ELSE @ ]
      r2 == register_precedence_second_symbol(nodes1[snd + 1].pred, first)
  IN [ nodes1 EXCEPT
         ![snd + 1].pred = r2.first,
         ![snd + 1].indegree = IF r2.new THEN @ + 1 ELSE @ ]

(***************************************************************************)
(* The n*n bool matrices: g[i][j] is g[<<i, j>>].                          *)
(***************************************************************************)
MatrixIndex(n) == (0..(n - 1)) \X (0..(n - 1))

new_graph(n) == [ p \in MatrixIndex(n) |-> FALSE ]

dynamic_graph_to_matrix(nodes, n) ==
  [ p \in MatrixIndex(n) |->
      \E l \in 1..Len(nodes[p[1] + 1].succ) :
         nodes[p[1] + 1].succ[l] = p[2] ]

copy_graph(c, n) == [ p \in MatrixIndex(n) |-> c[p] ]

\* The i and j loops of transitive_closure for one k.  They update cl in
\* place, but an entry they read, cl[i][k] or cl[k][j], is written only
\* when it is already true, so the pass is this simultaneous update.
closure_pass(cl, n, k) ==
  [ p \in MatrixIndex(n) |-> cl[p] \/ (cl[<< p[1], k >>] /\ cl[<< k, p[2] >>]) ]

\* for (int k = 0; k < nsyms + ngroups; k += 1)
RECURSIVE closure_loop(_, _, _)
closure_loop(cl, n, k) ==
  IF k >= n
  THEN cl
  ELSE closure_loop(closure_pass(cl, n, k), n, k + 1)

transitive_closure(g, n) == closure_loop(copy_graph(g, n), n, 0)

\* reduction_rem with the index slip rem[j][k] = true.
reduction_rem_slip(cl, n) ==
  [ p \in MatrixIndex(n) |->
      \E i \in 0..(n - 1) : cl[<< i, p[1] >>] /\ cl[p] ]

\* The first loop nest of transitive_reduction: rem[i][k] is set when
\* cl[i][j] and cl[j][k] for some j.
reduction_rem(cl, n) ==
  [ p \in MatrixIndex(n) |->
      \E j \in 0..(n - 1) : cl[<< p[1], j >>] /\ cl[<< j, p[2] >>] ]

\* reduction_keep ignoring rem.
reduction_keep_all(cl, rem, n) == [ p \in MatrixIndex(n) |-> cl[p] ]

\* The second loop nest: g[i][j] = cl[i][j] && !rem[i][j].
reduction_keep(cl, rem, n) ==
  [ p \in MatrixIndex(n) |-> cl[p] /\ ~rem[p] ]

transitive_reduction(g, n) ==
  CHOOSE r \in { reduction_keep(m.cl, m.rem, n) :
                   m \in { [ cl |-> cl, rem |-> reduction_rem(cl, n) ] :
                             cl \in { transitive_closure(g, n) } } } : TRUE

(***************************************************************************)
(* group_relations.  Its second pass, the one with in_links, lies behind   *)
(* the return of group_relations, so mark is null in every call of         *)
(* check_for_group and replace_links, and is_precedence_in_group is false. *)
(* A cursor into a linked list is the id its link holds: a list never      *)
(* holds a second link with the id of a link that was freed.               *)
(***************************************************************************)
\* grow (vect, size): vect[i + 1] is vect->t[i].
grow(vect, size) ==
  IF vect = << >>
  THEN [ i \in 1..(size + 10) |-> 0 ]
  ELSE IF size <= Len(vect)
  THEN vect
  ELSE [ i \in 1..(size + 10) |-> IF i <= Len(vect) THEN vect[i] ELSE 0 ]

\* markvector->t[id] & 1 and markvector->t[id] & 2
mark_father(mv, id) == mv[id + 1] % 2 = 1
mark_son(mv, id) == (mv[id + 1] \div 2) % 2 = 1

\* One turn of the loop of get_virtual_root, for the node of id i.
virtual_root_link(nodes, i) ==
  IF /\ (nodes[i + 1].pred = << >> \/ nodes[i + 1].pred[1] = 0)
     /\ nodes[i + 1].succ # << >>
  THEN [ nodes EXCEPT
           ![1].succ = << i >> \o @,
           ![1].outdegree = @ + 1,
           ![i + 1].pred = << 0 >> \o @,
           ![i + 1].indegree = @ + 1 ]
  ELSE nodes

RECURSIVE virtual_root_loop(_, _, _)
virtual_root_loop(nodes, i, n) ==
  IF i >= n
  THEN nodes
  ELSE virtual_root_loop(virtual_root_link(nodes, i), i + 1, n)

\* The nodes once prec_nodes[0] has become the virtual root.
get_virtual_root(nodes, n) ==
  virtual_root_loop([ nodes EXCEPT ![1].succ = << >>, ![1].outdegree = 0 ],
                    1, n)

\* same_list (l1, l2, mark, niter) with a null mark: the walk over both
\* lists ends with both exhausted exactly when they hold the same ids.
RECURSIVE same_list(_, _)
same_list(l1, l2) ==
  IF l1 # << >> /\ l2 # << >> /\ l1[1] = l2[1]
  THEN same_list(Tail(l1), Tail(l2))
  ELSE ~(l1 # << >> \/ l2 # << >>)

\* The loop of check_for_group: add_to_potential puts a brother at the
\* front of potentialnodes.
RECURSIVE potential_loop(_, _, _, _, _, _)
potential_loop(nodes, mv, ref, brothers, k, potentialnodes) ==
  IF k > Len(brothers)
  THEN potentialnodes
  ELSE potential_loop(nodes, mv, ref, brothers, k + 1,
         IF /\ ~mark_son(mv, brothers[k])
            /\ same_list(nodes[ref + 1].succ, nodes[brothers[k] + 1].succ)
            /\ same_list(nodes[ref + 1].pred, nodes[brothers[k] + 1].pred)
         THEN << brothers[k] >> \o potentialnodes
         ELSE potentialnodes)

\* same_size fails: check_for_group runs again on potentialnodes.
RECURSIVE check_for_group(_, _, _, _)
check_again(nodes, mv, ref, brothers, potentialnodes) ==
  IF Len(brothers) # Len(potentialnodes)
  THEN check_for_group(nodes, mv, ref, potentialnodes)
  ELSE potentialnodes

check_for_group(nodes, mv, ref, brothers) ==
  IF brothers = << >>
  THEN << >>
  ELSE check_again(nodes, mv, ref, brothers,
                   potential_loop(nodes, mv, ref, brothers, 1, << >>))

\* The place of the first link to el at or after p, or 0.
RECURSIVE link_position(_, _, _)
link_position(links, el, p) ==
  IF p > Len(links)
  THEN 0
  ELSE IF links[p] = el THEN p ELSE link_position(links, el, p + 1)

unlink_at(links, p) ==
  IF p = 0
  THEN [ links |-> links, ok |-> FALSE ]
  ELSE [ links |-> SubSeq(links, 1, p - 1) \o SubSeq(links, p + 1, Len(links)),
         ok |-> TRUE ]

\* delete_one_link (links, el).  On a list without a link to el, the empty
\* list included, it reads the id of a null pointer: ok is FALSE.
delete_one_link(links, el) == unlink_at(links, link_position(links, el, 1))

\* delete_one_link (...); degree -= 1; on the state d of a list and its
\* degree counter.
delete_counted(d, r) ==
  [ links |-> r.links, degree |-> d.degree - 1, ok |-> r.ok ]

\* for each id of ids, from the k-th: delete_one_link, degree -= 1.
RECURSIVE delete_links(_, _, _)
delete_links(d, ids, k) ==
  IF k > Len(ids) \/ ~d.ok
  THEN d
  ELSE delete_links(delete_counted(d, delete_one_link(d.links, ids[k])),
                    ids, k + 1)

\* The ids of the chain el, el->groupnext, ..., at most fuel of them.
RECURSIVE group_chain(_, _, _)
group_chain(nodes, el, fuel) ==
  IF el = NoNode \/ fuel = 0
  THEN << >>
  ELSE << el >> \o group_chain(nodes, nodes[el + 1].groupnext, fuel - 1)

\* The members of a group, in chain order.  A chain longer than the node
\* vector is a cycle of groupnext pointers.
group_symbols(nodes, group) ==
  group_chain(nodes, nodes[group + 1].symbols, Len(nodes) + 1)

\* add_group_link without the new link: only the degree is counted.
add_group_link_lost(w, parent_node, group, succ, d) ==
  IF ~d.ok
  THEN [ w EXCEPT !.ok = FALSE ]
  ELSE IF succ
  THEN [ w EXCEPT !.nodes[parent_node + 1].succ = d.links,
                  !.nodes[parent_node + 1].outdegree = d.degree + 1 ]
  ELSE [ w EXCEPT !.nodes[parent_node + 1].pred = d.links,
                  !.nodes[parent_node + 1].indegree = d.degree + 1 ]

\* Lastly the group is added at the beginning of the list left in d.
add_group_link(w, parent_node, group, succ, d) ==
  IF ~d.ok
  THEN [ w EXCEPT !.ok = FALSE ]
  ELSE IF succ
  THEN [ w EXCEPT !.nodes[parent_node + 1].succ = << group >> \o d.links,
                  !.nodes[parent_node + 1].outdegree = d.degree + 1 ]
  ELSE [ w EXCEPT !.nodes[parent_node + 1].pred = << group >> \o d.links,
                  !.nodes[parent_node + 1].indegree = d.degree + 1 ]

\* replace_links_one_node (parent_node, group, succ) on w = [nodes, ok].
replace_links_one_node(w, parent_node, group, succ) ==
  add_group_link(w, parent_node, group, succ,
    delete_links(
      [ links |-> IF succ THEN w.nodes[parent_node + 1].succ
                          ELSE w.nodes[parent_node + 1].pred,
        degree |-> IF succ THEN w.nodes[parent_node + 1].outdegree
                           ELSE w.nodes[parent_node + 1].indegree,
        ok |-> TRUE ],
      group_symbols(w.nodes, group), 1))

\* The walk of replace_links over the list parents, group->pred or
\* group->succ.
RECURSIVE replace_links_loop(_, _, _, _, _)
replace_links_loop(w, group, parents, k, succ) ==
  IF k > Len(parents) \/ ~w.ok
  THEN w
  ELSE replace_links_loop(
         replace_links_one_node(w, parents[k], group, succ),
         group, parents, k + 1, succ)

\* The nodes and the flag left by remove_out_links for one member.
out_links_removed(w, s, ds, dp) ==
  [ nodes |-> [ w.nodes EXCEPT ![s + 1].succ = ds.links,
                               ![s + 1].outdegree = ds.degree,
                               ![s + 1].pred = dp.links,
                               ![s + 1].indegree = dp.degree ],
    ok |-> dp.ok ]

\* The body of the outer loop of remove_out_links for the member s, ds
\* being what the first inner loop left of s->succ.
remove_pred_links(w, s, group, ds) ==
  IF ~ds.ok
  THEN [ w EXCEPT !.ok = FALSE ]
  ELSE out_links_removed(w, s, ds,
         delete_links([ links |-> w.nodes[s + 1].pred,
                        degree |-> w.nodes[s + 1].indegree, ok |-> TRUE ],
                      w.nodes[group + 1].pred, 1))

remove_out_links_node(w, s, group) ==
  remove_pred_links(w, s, group,
    delete_links([ links |-> w.nodes[s + 1].succ,
                   degree |-> w.nodes[s + 1].outdegree, ok |-> TRUE ],
                 w.nodes[group + 1].succ, 1))

RECURSIVE remove_out_links_loop(_, _, _, _)
remove_out_links_loop(w, group, members, k) ==
  IF k > Len(members) \/ ~w.ok
  THEN w
  ELSE remove_out_links_loop(remove_out_links_node(w, members[k], group),
                             group, members, k + 1)

remove_out_links(w, group) ==
  remove_out_links_loop(w, group, group_symbols(w.nodes, group), 1)

\* replace_links (group, parentid, 0, 0) on w = [nodes, ok].
replace_links(w, group) ==
  remove_out_links(
    replace_links_loop(
      replace_links_loop(w, group, w.nodes[group + 1].pred, 1, TRUE),
      group, w.nodes[group + 1].succ, 1, FALSE),
    group)

\* The loop of create_group that chains the members: cur->groupnext = s.
RECURSIVE chain_group(_, _, _, _)
chain_group(nodes, cur, sym, k) ==
  IF k > Len(sym)
  THEN nodes
  ELSE chain_group([ nodes EXCEPT ![cur + 1].groupnext = sym[k] ],
                   sym[k], sym, k + 1)

\* create_group (node, sym, gcreated, &mark) on the state g of the pass,
\* [nodes, mv, gcreated, fault]; first is nsyms + ngroups.  The group is
\* the node of id first + g.gcreated.
create_group(g, node, sym, first) ==
  [ g EXCEPT
      !.nodes = chain_group(
                  Append(g.nodes,
                         [ id |-> first + g.gcreated,
                           symbols |-> node,
                           pred |-> g.nodes[node + 1].pred,
                           succ |-> g.nodes[node + 1].succ,
                           groupnext |-> NoNode,
                           outdegree |-> g.nodes[node + 1].outdegree,
                           indegree |-> g.nodes[node + 1].indegree ]),
                  node, sym, 1),
      !.mv = [ grow(g.mv, first + g.gcreated + 1)
                 EXCEPT ![first + g.gcreated + 1] = 0 ],
      !.gcreated = g.gcreated + 1 ]

\* The first link of a list, and the link after the one holding id.
first_link(links) == IF links = << >> THEN NoNode ELSE links[1]
link_after(links, p) == IF p = Len(links) THEN NoNode ELSE links[p + 1]

RECURSIVE depth_grouping(_, _, _)
RECURSIVE sons_loop(_, _, _, _)
RECURSIVE descend_loop(_, _, _, _)

\* linkson = linkson->next, of the first loop of depth_grouping.  The link
\* is read again here: it was freed if the list of the node lost it.
sons_next_at(g, node, p, first) ==
  IF p = 0
  THEN [ g EXCEPT !.fault = "read of a freed link" ]
  ELSE sons_loop(g, node, link_after(g.nodes[node + 1].succ, p), first)

sons_next(g, node, linkson, first) ==
  sons_next_at(g, node, link_position(g.nodes[node + 1].succ, linkson, 1),
               first)

\* replace_links returned w: if (tmp) linkson = tmp, tmp being the link
\* to the group put at the head of the list of the node.
sons_replaced(g, w, node, linkson, group, first) ==
  IF ~w.ok
  THEN [ g EXCEPT !.fault = "null dereference in delete_one_link" ]
  ELSE sons_next([ g EXCEPT !.nodes = w.nodes ], node,
                 IF link_position(g.nodes[group + 1].pred, node, 1) # 0
                 THEN group ELSE linkson,
                 first)

\* A group was created: g holds it as its last node.
sons_created(g, node, linkson, first) ==
  sons_replaced(g, replace_links([ nodes |-> g.nodes, ok |-> TRUE ],
                                 Len(g.nodes) - 1),
                node, linkson, Len(g.nodes) - 1, first)

\* If there is a non-trivial equivalence class, create a group.
sons_checked(g, node, linkson, groupnodes, first) ==
  IF groupnodes = << >>
  THEN sons_next(g, node, linkson, first)
  ELSE sons_created(create_group(g, linkson, groupnodes, first),
                    node, linkson, first)

\* markvector->t[markindex] |= 2 is done: g.  The brothers are the links
\* after linkson, the p-th link of the node.
sons_marked(g, node, linkson, p, first) ==
  sons_checked(g, node, linkson,
    check_for_group(g.nodes, g.mv, linkson,
                    SubSeq(g.nodes[node + 1].succ, p + 1,
                           Len(g.nodes[node + 1].succ))),
    first)

\* for (linkson = node->succ; linkson; linkson = linkson->next)
sons_loop(g, node, linkson, first) ==
  IF linkson = NoNode \/ g.fault # "none"
  THEN g
  ELSE IF mark_son(g.mv, linkson)
  THEN sons_next(g, node, linkson, first)
  ELSE sons_marked([ g EXCEPT !.mv[linkson + 1] = @ + 2 ], node, linkson,
                   link_position(g.nodes[node + 1].succ, linkson, 1), first)

\* link = link->next, of the last loop of depth_grouping.
descend_next_at(g, node, p, first) ==
  IF g.fault # "none"
  THEN g
  ELSE IF p = 0
  THEN [ g EXCEPT !.fault = "read of a freed link" ]
  ELSE descend_loop(g, node, link_after(g.nodes[node + 1].succ, p), first)

descend_next(g, node, link, first) ==
  descend_next_at(g, node, link_position(g.nodes[node + 1].succ, link, 1),
                  first)

\* for (link = node->succ; link; link = link->next) depth_grouping (son)
descend_loop(g, node, link, first) ==
  IF link = NoNode \/ g.fault # "none"
  THEN g
  ELSE descend_next(depth_grouping(g, link, first), node, link, first)

descend_from(g, node, first) ==
  descend_loop(g, node, first_link(g.nodes[node + 1].succ), first)

\* depth_grouping without the father mark on a node that has no successor.
depth_grouping_leaf_unmarked(g, node, first) ==
  IF g.fault # "none" \/ mark_father(g.mv, node)
  THEN g
  ELSE descend_from(
         sons_loop([ g EXCEPT
                       !.mv[node + 1] =
                         IF g.nodes[node + 1].succ = << >> THEN @ ELSE @ + 1,
                       !.fathers = Append(@, node) ],
                   node, first_link(g.nodes[node + 1].succ), first),
         node, first)

\* depth_grouping (node, gcreated, false); g.fathers lists the nodes whose
\* body ran past the test of the father mark, in the order of the calls.
depth_grouping(g, node, first) ==
  IF g.fault # "none" \/ mark_father(g.mv, node)
  THEN g
  ELSE descend_from(
         sons_loop([ g EXCEPT !.mv[node + 1] = @ + 1,
                              !.fathers = Append(@, node) ],
                   node, first_link(g.nodes[node + 1].succ), first),
         node, first)

\* group_relations: the state [nodes, mv, gcreated, fault, fathers] at its
\* return, after its one call of depth_grouping; ngroups is then gcreated.
group_relations(nodes, mv, n) ==
  depth_grouping([ nodes |-> get_virtual_root(nodes, n),
                   mv |-> grow(mv, n),
                   gcreated |-> 0,
                   fault |-> "none",
                   fathers |-> << >> ],
                 0, n)

(***************************************************************************)
(* The dot file of print_rel_dot_graph: d = [out, mark], out being the     *)
(* lines written after the legend and mark the ids declared.               *)
(***************************************************************************)
is_group(id, n) == id >= n

RECURSIVE declare_symbol_graph(_, _, _, _, _)
RECURSIVE declare_members(_, _, _, _, _, _)

\* while (el) { declare_symbol_graph (f, el->id, mark); el = el->groupnext; }
declare_members(d, members, k, nodes, n, vec) ==
  IF k > Len(members)
  THEN d
  ELSE declare_members(declare_symbol_graph(d, members[k], nodes, n, vec),
                       members, k + 1, nodes, n, vec)

dot_line(d, line) == [ d EXCEPT !.out = Append(@, line) ]

\* declare_symbol_graph (f, index, mark); vec is the packed vector symbols.
declare_symbol_graph(d, index, nodes, n, vec) ==
  IF index \in d.mark
  THEN d
  ELSE IF is_group(index, n)
  THEN dot_line(
         declare_members(
           dot_line([ d EXCEPT !.mark = @ \cup { index } ],
                    [ line |-> "subgraph cluster", id |-> index ]),
           group_symbols(nodes, index), 1, nodes, n, vec),
         [ line |-> "}", id |-> index ])
  ELSE dot_line([ d EXCEPT !.mark = @ \cup { index } ],
                [ line |-> "label", id |-> index, tag |-> vec[index + 1] ])

\* get_first_symbol (graph); fuel bounds the walk down the groups.
RECURSIVE get_first_symbol(_, _, _, _)
get_first_symbol(nodes, graph, n, fuel) ==
  IF is_group(graph, n) /\ fuel > 0
  THEN get_first_symbol(nodes, nodes[graph + 1].symbols, n, fuel - 1)
  ELSE graph

\* The colour print_graph_link gives a link when col is true.
link_color(tsym, hsym) ==
  IF tsym.outdegree = 1
  THEN IF hsym.indegree = 1 THEN "red" ELSE "blue"
  ELSE IF hsym.indegree = 1 THEN "red" ELSE "black"

\* print_graph_link (f, tail, head, true)
print_graph_link(d, tail, head, nodes, n) ==
  dot_line(d,
    [ line |-> "link",
      tail |-> get_first_symbol(nodes, tail, n, Len(nodes)),
      head |-> get_first_symbol(nodes, head, n, Len(nodes)),
      lhead |-> IF is_group(head, n) THEN head ELSE NoNode,
      ltail |-> IF is_group(tail, n) THEN tail ELSE NoNode,
      color |-> link_color(nodes[tail + 1], nodes[head + 1]) ])

\* for (slink = symgraph->succ; slink; slink = slink->next)
RECURSIVE dot_links(_, _, _, _, _, _)
dot_links(d, gid, k, nodes, n, vec) ==
  IF k > Len(nodes[gid + 1].succ)
  THEN d
  ELSE dot_links(
         print_graph_link(
           declare_symbol_graph(d, nodes[gid + 1].succ[k], nodes, n, vec),
           gid, nodes[gid + 1].succ[k], nodes, n),
         gid, k + 1, nodes, n, vec)

\* for (i = nsyms + ngroups - 1; i > 0; i -= 1): loop backwards, the
\* groups being declared before their elements.
RECURSIVE dot_nodes(_, _, _, _, _)
dot_nodes(d, i, nodes, n, vec) ==
  IF i <= 0
  THEN d
  ELSE IF nodes[i + 1].succ = << >> /\ nodes[i + 1].pred = << >>
  THEN dot_nodes(d, i - 1, nodes, n, vec)
  ELSE dot_nodes(
         dot_links(declare_symbol_graph(d, i, nodes, n, vec),
                   i, 1, nodes, n, vec),
         i - 1, nodes, n, vec)

\* The lines print_rel_dot_graph writes for the grouped nodes.
print_rel_dot_graph(nodes, n, vec) ==
  dot_nodes([ out |-> << >>, mark |-> {} ], Len(nodes) - 1, nodes, n, vec).out

(***************************************************************************)
(* print_precedence_warnings; register_assoc and print_assoc_warnings      *)
(***************************************************************************)
\* The test of print_precedence_warnings with the successors alone.
precedence_useless_succ_only(vec, store, nodes, i) ==
  /\ vec[i + 1] # NULL
  /\ store[vec[i + 1]].prec # 0
  /\ nodes[i + 1].succ = << >>
  /\ store[vec[i + 1]].assoc = "precedence_assoc"

\* The test of print_precedence_warnings on symbols[i].
precedence_useless(vec, store, nodes, i) ==
  /\ vec[i + 1] # NULL
  /\ store[vec[i + 1]].prec # 0
  /\ nodes[i + 1].pred = << >>
  /\ nodes[i + 1].succ = << >>
  /\ store[vec[i + 1]].assoc = "precedence_assoc"

\* for (i = 0; i < nsyms; ++i) of print_precedence_warnings: the
\* diagnostics complained from symbols[i] on, after ds.
RECURSIVE print_precedence_warnings(_, _, _, _, _, _)
print_precedence_warnings(ds, vec, store, nodes, i, n) ==
  IF i >= n
  THEN ds
  ELSE print_precedence_warnings(
         IF precedence_useless(vec, store, nodes, i)
         THEN Append(ds, Diag("Wprecedence", store[vec[i + 1]].location,
                              "useless precedence for", vec[i + 1]))
         ELSE ds,
         vec, store, nodes, i + 1, n)

init_assoc(n) == [ i \in 1..n |-> FALSE ]

\* register_assoc marking its first argument alone.
register_assoc_first(used, n, i, j) ==
  [ (IF used = << >> THEN init_assoc(n) ELSE used) EXCEPT ![i + 1] = TRUE ]

\* register_assoc (i, j): used_assoc after the call.
register_assoc(used, n, i, j) ==
  [ (IF used = << >> THEN init_assoc(n) ELSE used)
      EXCEPT ![i + 1] = TRUE, ![j + 1] = TRUE ]

\* is_assoc_useless (s), s being symbols[i]
is_assoc_useless(vec, store, used, i) ==
  /\ vec[i + 1] # NULL
  /\ store[vec[i + 1]].assoc # "undef_assoc"
  /\ store[vec[i + 1]].assoc # "precedence_assoc"
  /\ ~used[store[vec[i + 1]].number + 1]

\* for (i = 0; i < nsyms; ++i) of print_assoc_warnings
RECURSIVE print_assoc_warnings(_, _, _, _, _, _)
print_assoc_warnings(ds, vec, store, used, i, n) ==
  IF i >= n
  THEN ds
  ELSE print_assoc_warnings(
         IF is_assoc_useless(vec, store, used, i)
         THEN Append(ds, Diag("Wprecedence", store[vec[i + 1]].location,
                              "useless associativity for", vec[i + 1]))
         ELSE ds,
         vec, store, used, i + 1, n)

\* print_precedence_warnings (): the caller is then past the warnings.
PrintPrecedenceWarnings ==
  /\ pc = "packed"
  /\ prec_nodes' = IF prec_nodes = << >>
                   THEN init_prec_nodes(nsyms) ELSE prec_nodes
  /\ diags' = print_precedence_warnings(<< >>, symbols, syms, prec_nodes',
                                        0, nsyms)
  /\ pc' = "warned"
  /\ UNCHANGED << storeVars, fault, nops, call, ngroups, nedges, redg,
                  markvector, dot, used_assoc >>

\* register_assoc (i, j): the conflict resolver used the associativity of
\* the symbols numbered i and j.
RegisterAssoc(i, j) ==
  /\ pc = "packed"
  /\ i \in 0..(nsyms - 1)
  /\ j \in 0..(nsyms - 1)
  /\ used_assoc' = register_assoc(used_assoc, nsyms, i, j)
  /\ nedges' = nedges + 1
  /\ UNCHANGED << storeVars, diags, pc, fault, nops, call, prec_nodes,
                  ngroups, redg, markvector, dot >>

\* print_assoc_warnings (): the caller is then past the warnings.
PrintAssocWarnings ==
  /\ pc = "packed"
  /\ used_assoc' = IF used_assoc = << >>
                   THEN init_assoc(nsyms) ELSE used_assoc
  /\ diags' = print_assoc_warnings(<< >>, symbols, syms, used_assoc',
                                   0, nsyms)
  /\ pc' = "warned"
  /\ UNCHANGED << storeVars, fault, nops, call, prec_nodes, ngroups, nedges,
                  redg, markvector, dot >>

\* register_precedence (first, snd): the conflict resolver records that
\* first has a greater precedence than snd, both being symbol numbers.
RegisterPrecedence(first, snd) ==
  /\ pc = "packed"
  /\ first \in 0..(nsyms - 1)
  /\ snd \in 0..(nsyms - 1)
  /\ prec_nodes' = register_precedence(prec_nodes, nsyms, first, snd)
  /\ nedges' = nedges + 1
  /\ UNCHANGED << storeVars, diags, pc, fault, nops, call, ngroups, redg,
                  markvector, dot, used_assoc >>

\* print_transitive_reduction (f): the matrix whose true entries are
\* printed as links.  Without any register_precedence call prec_nodes is a
\* null pointer, and prec_nodes[0] is read through it.
PrintTransitiveReduction ==
  /\ pc = "packed"
  /\ IF prec_nodes = << >>
     THEN /\ fault' = "null dereference of prec_nodes"
          /\ pc' = "exit"
          /\ UNCHANGED redg
     ELSE /\ redg' = transitive_reduction(
                       dynamic_graph_to_matrix(prec_nodes, nsyms + ngroups),
                       nsyms + ngroups)
          /\ pc' = "printed"
          /\ UNCHANGED fault
  /\ UNCHANGED << storeVars, diags, nops, call, prec_nodes, ngroups, nedges,
                  markvector, dot, used_assoc >>

\* print_rel_dot_graph (f): group_relations, then the dot file.  Without
\* any register_precedence call get_virtual_root writes through the null
\* prec_nodes.
PrintRelDotGraph ==
  /\ pc = "packed"
  /\ IF prec_nodes = << >>
     THEN /\ fault' = "null dereference of prec_nodes"
          /\ pc' = "exit"
          /\ UNCHANGED << prec_nodes, ngroups, markvector, dot >>
     ELSE \E g \in { group_relations(prec_nodes, markvector, nsyms) } :
            /\ prec_nodes' = g.nodes
            /\ markvector' = g.mv
            /\ IF g.fault # "none"
               THEN /\ fault' = g.fault
                    /\ pc' = "exit"
                    /\ UNCHANGED << ngroups, dot >>
               ELSE /\ ngroups' = g.gcreated
                    /\ dot' = print_rel_dot_graph(g.nodes, nsyms, symbols)
                    /\ pc' = "grouped"
                    /\ UNCHANGED fault
  /\ UNCHANGED << storeVars, diags, nops, call, nedges, redg, used_assoc >>

(***************************************************************************)
(* Spec: the grammar parser declares symbols, then the reader finalizes.   *)
(* Symbols are first mentioned at location 1 and declared at location 2.   *)
(***************************************************************************)
Next ==
  \/ \E key \in UserTags, loc \in MentionLocs :
       pc = "parse" /\ SymbolGet(key, loc)
  \/ \E sym \in UserTags, c \in Classes, loc \in MutLocs, d \in Declaring :
       SymbolClassSet(sym, c, loc, d)
  \/ \E sym \in UserTags, prec \in Precs, a \in DeclAssocs, loc \in MutLocs :
       SymbolPrecedenceSet(sym, prec, a, loc)
  \/ \E sym \in UserTags, n \in UserNumbers, loc \in MutLocs :
       SymbolUserTokenNumberSet(sym, n, loc)
  \/ \E sym \in UserTags, str \in UserTags, loc \in MutLocs :
       SymbolMakeAlias(sym, str, loc)
  \/ SymbolsCheckDefined
  \/ \E sym \in StartTags, loc \in MutLocs : ReaderFindStartSymbol(sym, loc)
  \/ \E ub \in UBOutcomes : SymbolsPack(ub)

Spec == Init /\ [][Next]_vars

(***************************************************************************)
(* Properties of the finalized symbol table.                               *)
(***************************************************************************)
\* symbols_pack returned: the packed vector and the translations are set.
Finalized == pc = "packed"

Slots == 0..(nsyms - 1)
SlotSym(i) == syms[symbols[i + 1]]
AliasPairs ==
  { pr \in (DOMAIN syms) \X (DOMAIN syms) :
      /\ syms[pr[1]].alias = pr[2]
      /\ syms[pr[1]].user_token_number = USER_NUMBER_HAS_STRING_ALIAS }

\* C1: after symbols_check_defined and symbols_pack the packed vector is a
\* bijection: every slot i of [0, nsyms) holds a record whose number is i,
\* no record sits in two slots, and the tokens are exactly the slots below
\* ntokens.
C1_PackedBijection ==
  Finalized =>
    /\ Len(symbols) = nsyms
    /\ \A i \in Slots :
         /\ symbols[i + 1] # NULL
         /\ SlotSym(i).number = i
         /\ (SlotSym(i).class = "token_sym") <=> (i < ntokens)
    /\ \A i, j \in Slots : i # j => symbols[i + 1] # symbols[j + 1]

\* C2: after finalization every record has a class and a number, and the
\* assertion number != NUMBER_UNDEFINED of symbol_pack never fails.
C2_AllNumbered ==
  /\ fault # "aver: number != NUMBER_UNDEFINED"
  /\ Finalized =>
       \A s \in DOMAIN syms :
         /\ syms[s].class # "unknown_sym"
         /\ syms[s].number # NUMBER_UNDEFINED

\* C3: in every reachable state, a symbol with an alias is the alias of its
\* alias and has the same number as its alias.
C3_AliasSymmetry ==
  \A s \in DOMAIN syms :
    syms[s].alias # NULL =>
      /\ syms[syms[s].alias].alias = s
      /\ syms[syms[s].alias].number = syms[s].number

NumberedTokens ==
  { t \in DOMAIN syms :
      /\ syms[t].class = "token_sym"
      /\ syms[t].user_token_number # USER_NUMBER_HAS_STRING_ALIAS
      /\ syms[t].user_token_number # USER_NUMBER_UNDEFINED }
UserNumberOf(t) == syms[t].user_token_number

\* C5: after finalization, token_translations[u] == t.number for
\* every token t, not the identifier side of an alias pair, with user
\* number u.
C5_TranslationSound ==
  Finalized =>
    \A t \in NumberedTokens :
      /\ UserNumberOf(t) \in 0..(token_translations.size - 1)
      /\ tt_at(token_translations, UserNumberOf(t)) = syms[t].number

\* C6: after finalization, for every u in 0..max_user_token_number,
\* token_translations[u] is the number of a token whose user number is u
\* if there is such a token, and undeftoken's number if there is none.
C6_TranslationComplete ==
  Finalized =>
    /\ token_translations.size = max_user_token_number + 1
    /\ \A u \in 0..max_user_token_number :
         IF \E t \in NumberedTokens : UserNumberOf(t) = u
         THEN \E t \in NumberedTokens :
                /\ UserNumberOf(t) = u
                /\ syms[t].number = tt_at(token_translations, u)
         ELSE tt_at(token_translations, u) = syms[undeftoken].number

\* C6 witness: a user token received a user number and is translated to its number,
\* while other entries stay at undeftoken's number.
C6_Witness ==
  /\ Finalized
  /\ \E t \in NumberedTokens \cap UserTags :
       /\ t # errtoken
       /\ UserNumberOf(t) \in 0..max_user_token_number
       /\ tt_at(token_translations, UserNumberOf(t)) = syms[t].number
       /\ syms[t].number # syms[undeftoken].number
  /\ \E u \in 0..max_user_token_number :
       /\ \A t \in NumberedTokens : UserNumberOf(t) # u
       /\ tt_at(token_translations, u) = syms[undeftoken].number

(***************************************************************************)
(* SpecGet: callers look symbols up, at either location and at any time    *)
(* before and after the tables are sorted, and set attributes in between.  *)
(***************************************************************************)
NextGet ==
  \/ \E key \in GetTags, loc \in Locs : SymbolGetCall(key, loc)
  \/ \E loc \in MentionLocs : DummySymbolGet(loc)
  \/ \E sym \in GetTags, c \in Classes, loc \in MutLocs, d \in Declaring :
       SymbolClassSet(sym, c, loc, d)
  \/ \E sym \in GetTags, t \in GetTypeNames, loc \in MutLocs :
       SymbolTypeSet(sym, t, loc)
  \/ SymbolsCheckDefined

SpecGet == Init /\ [][NextGet]_vars

\* C7: symbol_get on a key that is in the store returns the record of that
\* key, creates nothing (nsyms unchanged) and leaves every attribute of
\* every record, the location included, unchanged; only the first call for
\* a key adds a record.
C7_GetIdentity ==
  [][ \A key \in GetTags, loc \in Locs :
        SymbolGetCall(key, loc) =>
          IF key \in DOMAIN syms
          THEN /\ call'.ret = key
               /\ syms' = syms
               /\ nsyms' = nsyms
          ELSE call'.ret = key => (nsyms' = nsyms + 1 /\ key \in DOMAIN syms')
    ]_vars

\* C7 witness: a second symbol_get, at another location, on a record that has a class.
C7_Witness ==
  /\ call.ret # NULL
  /\ syms[call.ret].location # call.loc
  /\ syms[call.ret].class # "unknown_sym"

\* C8: once symbols_sorted is set, symbol_get on a key that is not in the
\* store fails aver (!symbols_sorted) and adds no record; symbol_get on a
\* key that is in the store returns its record and does not fail.
C8_SortedStability ==
  [][ \A key \in GetTags, loc \in Locs :
        (symbols_sorted # NULL /\ SymbolGetCall(key, loc)) =>
          IF key \in DOMAIN syms
          THEN /\ fault' = "none"
               /\ call'.ret = key
               /\ syms' = syms
          ELSE /\ fault' = "aver: !symbols_sorted"
               /\ call'.ret = NULL
               /\ syms' = syms
               /\ nsyms' = nsyms
    ]_vars

\* C8 witness: a symbol_get on a fresh key after the sort.
C8_Witness ==
  /\ symbols_sorted # NULL
  /\ call.key # NULL
  /\ call.key \notin DOMAIN syms
  /\ fault = "aver: !symbols_sorted"

(***************************************************************************)
(* SpecGraph: a grammar with one nonterminal is read and packed, the       *)
(* conflict resolver registers precedence relations between symbol         *)
(* numbers, and the transitive reduction is printed.                       *)
(***************************************************************************)
NextGraph ==
  \/ \E key \in StartTags, loc \in MentionLocs :
       pc = "parse" /\ SymbolGet(key, loc)
  \/ \E sym \in StartTags \cap DOMAIN syms, loc \in MutLocs, d \in Declaring :
       syms[sym].class = "unknown_sym"
         /\ SymbolClassSet(sym, "nterm_sym", loc, d)
  \/ SymbolsCheckDefined
  \/ \E sym \in StartTags, loc \in MutLocs : ReaderFindStartSymbol(sym, loc)
  \/ \E ub \in UBOutcomes : SymbolsPack(ub)
  \/ \E first, snd \in 0..(nsyms - 1) :
       nedges < MaxEdges /\ RegisterPrecedence(first, snd)
  \/ PrintTransitiveReduction

SpecGraph == Init /\ [][NextGraph]_vars

\* The relations registered so far, and the links printed.
PrecEdges ==
  IF prec_nodes = << >>
  THEN {}
  ELSE { p \in MatrixIndex(Len(prec_nodes)) :
           \E l \in 1..Len(prec_nodes[p[1] + 1].succ) :
              prec_nodes[p[1] + 1].succ[l] = p[2] }
ReducedEdges == { p \in DOMAIN redg : redg[p] }
Printed == pc = "printed"

\* Relational composition and the paths of length >= 1.
Compose(R, S) ==
  { << a[1], b[2] >> : << a, b >> \in { pr \in R \X S : pr[1][2] = pr[2][1] } }
RECURSIVE Paths(_)
Paths(R) ==
  LET R2 == R \cup Compose(R, R) IN IF R2 = R THEN R ELSE Paths(R2)
Acyclic(R) == \A p \in Paths(R) : p[1] # p[2]

\* C9 as stated: for every graph G built by register_precedence, the edge
\* set R left by transitive_reduction has the closure of G, and no proper
\* subset of R has it.
C9_ReductionCorrect ==
  Printed =>
    /\ Paths(ReducedEdges) = Paths(PrecEdges)
    /\ \A S \in SUBSET ReducedEdges :
         S # ReducedEdges => Paths(S) # Paths(PrecEdges)

\* C9 amended: for every acyclic graph G built by register_precedence, the
\* edge set R left by transitive_reduction has the closure of G, and no
\* proper subset of R has it.
C9_ReductionCorrectAcyclic ==
  (Printed /\ Acyclic(PrecEdges)) =>
    /\ Paths(ReducedEdges) = Paths(PrecEdges)
    /\ \A S \in SUBSET ReducedEdges :
         S # ReducedEdges => Paths(S) # Paths(PrecEdges)

\* C9 witness: an acyclic graph whose reduction dropped an edge and kept
\* others.
C9_Witness ==
  /\ Printed
  /\ Acyclic(PrecEdges)
  /\ ReducedEdges # {}
  /\ ReducedEdges # PrecEdges

\* C10: for every acyclic graph G, transitive_reduction retains (i, k)
\* exactly when (i, k) is an edge of G and no path of length >= 2 leads
\* from i to k.
C10_RetainsDirectEdges ==
  (Printed /\ Acyclic(PrecEdges)) =>
    \A p \in MatrixIndex(nsyms + ngroups) :
      redg[p] <=>
        (p \in PrecEdges /\ p \notin Compose(PrecEdges, Paths(PrecEdges)))

\* C10 witness: the graph A>B, B>C, A>C, with A>B and B>C retained and
\* A>C dropped.
C10_Witness ==
  /\ Printed
  /\ \E a, b, c \in 0..(nsyms - 1) :
       /\ PrecEdges = { << a, b >>, << b, c >>, << a, c >> }
       /\ Cardinality(PrecEdges) = 3
       /\ Acyclic(PrecEdges)
       /\ ReducedEdges = { << a, b >>, << b, c >> }

\* C11: a register_precedence (a, b) for a relation a > b that is already
\* registered, whatever calls lie between, leaves every node as it was:
\* outdegree (a), indegree (b) and all the succ and pred lists.
C11_EdgeIdempotent ==
  [][ \A a, b \in 0..(nsyms - 1) :
        (RegisterPrecedence(a, b) /\ << a, b >> \in PrecEdges)
          => prec_nodes' = prec_nodes ]_vars

\* C11 witness: three calls have left two relations, so one of them
\* repeated a relation.
C11_Witness ==
  /\ nedges = 3
  /\ Cardinality(PrecEdges) = 2

(***************************************************************************)
(* SpecGroup: a grammar with one nonterminal is read and packed, the       *)
(* conflict resolver registers precedence relations between symbol         *)
(* numbers, and the relation graph is grouped and printed.                 *)
(***************************************************************************)
NextGroup ==
  \/ \E key \in StartTags, loc \in MentionLocs :
       pc = "parse" /\ SymbolGet(key, loc)
  \/ \E sym \in StartTags \cap DOMAIN syms, loc \in MutLocs, d \in Declaring :
       syms[sym].class = "unknown_sym"
         /\ SymbolClassSet(sym, "nterm_sym", loc, d)
  \/ SymbolsCheckDefined
  \/ \E sym \in StartTags, loc \in MutLocs : ReaderFindStartSymbol(sym, loc)
  \/ \E ub \in UBOutcomes : SymbolsPack(ub)
  \/ \E first \in GroupFirsts, snd \in 0..(nsyms - 1) :
       nedges < MaxRelations /\ RegisterPrecedence(first, snd)
  \/ PrintRelDotGraph

SpecGroup == Init /\ [][NextGroup]_vars

\* The links of a node vector, and the ids chained in the group of id g.
EdgesOf(nodes) ==
  { p \in MatrixIndex(Len(nodes)) :
      \E l \in 1..Len(nodes[p[1] + 1].succ) : nodes[p[1] + 1].succ[l] = p[2] }
MembersOf(nodes, g) ==
  { group_symbols(nodes, g)[k] : k \in 1..Len(group_symbols(nodes, g)) }
Grouped == pc = "grouped"

\* The higher and the lower sides of a relation R, and whether R is the
\* relation A>X, A>Y, B>X, B>Y of scenario E5 between four symbols of ids.
Higher(R) == { e[1] : e \in R }
Lower(R) == { e[2] : e \in R }
IsE5(R, ids) ==
  /\ Cardinality(Higher(R)) = 2
  /\ Cardinality(Lower(R)) = 2
  /\ Higher(R) \cap Lower(R) = {}
  /\ Higher(R) \cup Lower(R) \subseteq ids
  /\ R = Higher(R) \X Lower(R)

\* C12 as stated: after registering exactly A>X, A>Y, B>X, B>Y,
\* group_relations yields one group node, containing {A, B}, and leaves
\* exactly the two links group->X and group->Y besides those of the
\* virtual root, X and Y staying ungrouped.
C12_E5OneGroup ==
  [][ (pc = "packed" /\ IsE5(PrecEdges, 0..(nsyms - 1)) /\ PrintRelDotGraph)
        => /\ ngroups' = 1
           /\ MembersOf(prec_nodes', nsyms) = Higher(PrecEdges)
           /\ { e \in EdgesOf(prec_nodes') : e[1] # 0 }
                = { nsyms } \X Lower(PrecEdges) ]_vars

\* C12 amended: after registering exactly A>X, A>Y, B>X, B>Y between
\* symbols of numbers other than 0, group_relations yields two group
\* nodes, the first containing {A, B} and the second {X, Y}, and the four
\* original links are replaced by the one link from the first group to the
\* second, besides the link from the virtual root to the first group.
C12_E5TwoGroups ==
  [][ (pc = "packed" /\ IsE5(PrecEdges, 1..(nsyms - 1)) /\ PrintRelDotGraph)
        => /\ pc' = "grouped"
           /\ ngroups' = 2
           /\ MembersOf(prec_nodes', nsyms) = Higher(PrecEdges)
           /\ MembersOf(prec_nodes', nsyms + 1) = Lower(PrecEdges)
           /\ EdgesOf(prec_nodes')
                = { << 0, nsyms >>, << nsyms, nsyms + 1 >> } ]_vars

\* C12 witness: four register_precedence calls, then the two groups of two
\* symbols with the one link between them.
C12_Witness ==
  /\ Grouped
  /\ nedges = 4
  /\ ngroups = 2
  /\ Cardinality(MembersOf(prec_nodes, nsyms)) = 2
  /\ Cardinality(MembersOf(prec_nodes, nsyms + 1)) = 2
  /\ 0 \notin MembersOf(prec_nodes, nsyms) \cup MembersOf(prec_nodes, nsyms + 1)
  /\ EdgesOf(prec_nodes) = { << 0, nsyms >>, << nsyms, nsyms + 1 >> }

(***************************************************************************)
(* SpecE1: scenario E1.  The token IF (E1Token) is declared, numbered and  *)
(* given its literal string (StrS), in this order; the grammar has one     *)
(* nonterminal (E1Nterm), its start symbol, declared or only used.         *)
(***************************************************************************)
NextE1 ==
  \/ \E key \in { E1Token, StrS, E1Nterm }, loc \in Locs :
       pc = "parse" /\ SymbolGet(key, loc)
  \/ \E loc \in Locs :
       /\ E1Token \in DOMAIN syms
       /\ syms[E1Token].class = "unknown_sym"
       /\ SymbolClassSet(E1Token, "token_sym", loc, TRUE)
  \/ \E n \in E1Numbers, loc \in Locs :
       /\ E1Token \in DOMAIN syms
       /\ syms[E1Token].class = "token_sym"
       /\ syms[E1Token].user_token_number = USER_NUMBER_UNDEFINED
       /\ SymbolUserTokenNumberSet(E1Token, n, loc)
  \/ \E loc \in Locs :
       /\ E1Token \in DOMAIN syms
       /\ syms[E1Token].user_token_number \in E1Numbers
       /\ SymbolMakeAlias(E1Token, StrS, loc)
  \/ \E loc \in Locs :
       /\ E1Nterm \in DOMAIN syms
       /\ syms[E1Nterm].class = "unknown_sym"
       /\ SymbolClassSet(E1Nterm, "nterm_sym", loc, TRUE)
  \/ SymbolsCheckDefined
  \/ \E loc \in Locs : ReaderFindStartSymbol(E1Nterm, loc)
  \/ \E ub \in UBOutcomes : SymbolsPack(ub)

SpecE1 == Init /\ [][NextE1]_vars

\* The calls of scenario E1 were made and finalize returned.
E1Done ==
  /\ Finalized
  /\ E1Token \in DOMAIN syms
  /\ syms[E1Token].alias = StrS

\* C13: after scenario E1 and finalize, IF and its literal string have
\* the same number, token_translations maps the user number given to IF
\* to that number, and nsyms is the number of records created minus one,
\* for the collapsed alias slot.
C13_BasicAlias ==
  E1Done =>
    /\ syms[E1Token].number = syms[StrS].number
    /\ syms[StrS].user_token_number \in E1Numbers
    /\ tt_at(token_translations, syms[StrS].user_token_number)
         = syms[E1Token].number
    /\ nsyms = Cardinality(DOMAIN syms) - 1

\* Phase D runs in symbols_pack; the tokens other than the error token
\* that hold user number 256 when it starts.
Holds256 ==
  \E s \in DOMAIN syms :
    /\ s # errtoken
    /\ syms[s].class = "token_sym"
    /\ syms[s].user_token_number = 256
\* The user numbers declared on tokens before finalization.
DeclaredUserNumbers ==
  { syms[s].user_token_number :
      s \in { t \in DOMAIN syms : syms[t].class = "token_sym" } }
    \ { USER_NUMBER_UNDEFINED, USER_NUMBER_HAS_STRING_ALIAS }
ErrorUnnumbered == syms[errtoken].user_token_number = USER_NUMBER_UNDEFINED
PackReturns == (\E ub \in UBOutcomes : SymbolsPack(ub)) /\ pc' = "packed"

\* C14: in Phase D an unnumbered error token receives user number 256 if
\* no token holds 256; if another token holds 256 it is not given 256 but
\* a fresh number, above 256 and above every declared number; and an
\* explicitly numbered error token keeps its number.
C14_PosixErrorToken ==
  [][ PackReturns =>
        /\ (ErrorUnnumbered /\ ~Holds256)
             => syms'[errtoken].user_token_number = 256
        /\ (ErrorUnnumbered /\ Holds256)
             => /\ syms'[errtoken].user_token_number > 256
                /\ \A n \in DeclaredUserNumbers :
                     syms'[errtoken].user_token_number > n
        /\ syms[errtoken].user_token_number
             \notin { USER_NUMBER_UNDEFINED, USER_NUMBER_HAS_STRING_ALIAS }
             => syms'[errtoken].user_token_number
                  = syms[errtoken].user_token_number ]_vars

(***************************************************************************)
(* SpecE4: scenario E4.  Tokens are declared with user numbers; the        *)
(* grammar has one nonterminal (E4Nterm), its start symbol.                *)
(***************************************************************************)
NextE4 ==
  \/ \E key \in E4Tokens \cup { E4Nterm }, loc \in MentionLocs :
       pc = "parse" /\ SymbolGet(key, loc)
  \/ \E sym \in E4Tokens \cap DOMAIN syms, n \in E4Numbers, loc \in MutLocs :
       /\ syms[sym].class = "unknown_sym"
       /\ \A t \in DOMAIN syms : syms[t].user_token_number # n
       /\ DeclareToken(sym, n, loc)
  \/ \E loc \in MutLocs :
       /\ E4Nterm \in DOMAIN syms
       /\ syms[E4Nterm].class = "unknown_sym"
       /\ SymbolClassSet(E4Nterm, "nterm_sym", loc, TRUE)
  \/ SymbolsCheckDefined
  \/ \E loc \in MutLocs : ReaderFindStartSymbol(E4Nterm, loc)
  \/ \E ub \in UBOutcomes : SymbolsPack(ub)

SpecE4 == Init /\ [][NextE4]_vars

RECURSIVE MaxOf(_)
MaxOf(S) ==
  IF S = {} THEN 0
  ELSE LET x == CHOOSE y \in S : TRUE IN
       IF x > MaxOf(S \ { x }) THEN x ELSE MaxOf(S \ { x })

\* C15 as stated: when symbols_pack returns, max_user_token_number is the
\* maximum of 256 and the largest user token number declared on any token
\* before finalization.
C15_MaxIsLargestDeclared ==
  [][ PackReturns =>
        max_user_token_number' = MaxOf({ 256 } \cup DeclaredUserNumbers) ]_vars

\* C15 amended: after finalize, max_user_token_number is the maximum of
\* 256 and the largest user token number, declared or given by Phase D,
\* of the symbols in the slots [0, ntokens) of the packed vector.
C15_MaxIsLargestHeld ==
  Finalized =>
    max_user_token_number
      = MaxOf({ 256 } \cup { syms[symbols[i]].user_token_number :
                               i \in 1..ntokens })

\* C15 witness: scenario E4 finalized, with the error token at 256 and
\* $undefined given 401.
C15_Witness ==
  /\ Finalized
  /\ { syms[t].user_token_number : t \in E4Tokens \cap DOMAIN syms }
       = { 100, 200, 400 }
  /\ syms[errtoken].user_token_number = 256
  /\ syms[undeftoken].user_token_number = 401
  /\ max_user_token_number = 401

(***************************************************************************)
(* SpecE3: scenario E3.  Symbols are mentioned, referenced by rules,       *)
(* declared as tokens or nonterminals, or left undefined; then finalize.   *)
(***************************************************************************)
\* A rule's right-hand side names the symbol: it is needed from now on,
\* unless a declaration already defined it.
grammar_symbol_append(w, sym) ==
  IF w.syms[sym].status = "undeclared"
  THEN [ w EXCEPT !.syms[sym].status = "needed" ]
  ELSE w

GrammarSymbolAppend(sym) ==
  /\ Parsing
  /\ sym \in Known
  /\ syms[sym].status = "undeclared"
  /\ Mutator(grammar_symbol_append(World, sym))

NextE3 ==
  \/ \E key \in E3Tags, loc \in Locs :
       pc = "parse" /\ SymbolGet(key, loc)
  \/ \E sym \in E3Tags : GrammarSymbolAppend(sym)
  \/ \E sym \in E3Tags, c \in Classes, loc \in Locs :
       /\ sym \in DOMAIN syms
       /\ syms[sym].class = "unknown_sym"
       /\ SymbolClassSet(sym, c, loc, TRUE)
  \/ \E sym \in E3Tags, loc \in Locs :
       /\ sym \in DOMAIN syms
       /\ syms[sym].class = "token_sym"
       /\ SymbolUserTokenNumberSet(sym, 0, loc)
  \/ SymbolsCheckDefined
  \/ \E sym \in E3Tags, loc \in Locs : ReaderFindStartSymbol(sym, loc)
  \/ \E ub \in UBOutcomes : SymbolsPack(ub)

SpecE3 == Init /\ [][NextE3]_vars

\* The symbols symbols_check_defined finds without a class.
Undefined == { sym \in DOMAIN syms : syms[sym].class = "unknown_sym" }
\* The diagnostics of the last call that name sym.
DiagsAbout(ds, sym) == { i \in 1..Len(ds) : ds[i].arg = sym }
\* Symbols made nonterminals by symbols_check_defined: no declaration set
\* their status.
Elevated ==
  { sym \in Known : syms[sym].class = "nterm_sym"
                      /\ syms[sym].status # "declared" }

\* C16: symbols_check_defined emits exactly one diagnostic for every symbol
\* whose class is unknown, a complaint if its status is needed and a warning
\* otherwise, makes it a nonterminal and numbers it from nvars++; symbols_pack
\* then places it in the symbols vector.
C16_UsedButUndefined ==
  [][ /\ (SymbolsCheckDefined /\ pc' = "checked") =>
           /\ \A sym \in Undefined :
                /\ Cardinality(DiagsAbout(diags', sym)) = 1
                /\ \A i \in DiagsAbout(diags', sym) :
                     /\ diags'[i].severity =
                          IF syms[sym].status = "needed"
                          THEN "complaint" ELSE "Wother"
                     /\ diags'[i].msg =
                          "symbol is used, but is not defined as a token and has no rules"
                /\ syms'[sym].class = "nterm_sym"
                /\ syms'[sym].number \in nvars..(nvars' - 1)
           /\ nvars' = nvars + Cardinality(Undefined)
           /\ \A s1, s2 \in Undefined :
                s1 # s2 => syms'[s1].number # syms'[s2].number
      /\ PackReturns =>
           \A sym \in Elevated :
             /\ syms'[sym].number \in 0..(nsyms' - 1)
             /\ symbols'[syms'[sym].number + 1] = sym ]_vars

\* Finalize returned with one undefined symbol a rule needed and one that
\* was only mentioned.
C16_Witness ==
  /\ Finalized
  /\ \E s1, s2 \in Elevated :
       /\ syms[s1].status = "needed"
       /\ syms[s2].status = "undeclared"
       /\ symbols[syms[s1].number + 1] = s1
       /\ symbols[syms[s2].number + 1] = s2

(***************************************************************************)
(* SpecSet: the grammar's declarations set the attributes of one symbol,   *)
(* any of them more than once, the type at either location.                *)
(***************************************************************************)
NextSet ==
  \/ \E loc \in MentionLocs : pc = "parse" /\ SymbolGet(SetTag, loc)
  \/ \E t \in SetTypeNames, loc \in Locs : SymbolTypeSet(SetTag, t, loc)
  \/ \E kind \in Kinds, code \in Codes, loc \in MutLocs :
       SymbolCodePropsSet(SetTag, kind, code, loc)
  \/ \E prec \in SetPrecs, a \in SetAssocs, loc \in MutLocs :
       SymbolPrecedenceSet(SetTag, prec, a, loc)
  \/ \E n \in SetNumbers, loc \in MutLocs :
       SymbolUserTokenNumberSet(SetTag, n, loc)
  \/ \E c \in Classes, loc \in MutLocs, d \in Declaring :
       SymbolClassSet(SetTag, c, loc, d)

SpecSet == Init /\ [][NextSet]_vars

\* C17: symbol_type_set with a type, on a symbol that has one, emits the
\* complaint '%type redeclaration' at the location of this call and then,
\* indented, the note 'previous declaration' at the location the earlier
\* call stored, and nothing else; a first symbol_type_set emits nothing.
\* Either call stores its location.
C17_TypeRedeclaration ==
  [][ \A t \in TypeNames, loc \in Locs :
        SymbolTypeSet(SetTag, t, loc) =>
          /\ diags' =
               IF syms[SetTag].type_name # NULL
               THEN << Diag("complaint", loc, "redeclaration for",
                            << "%type", SetTag, 0 >>),
                       Diag("complaint", syms[SetTag].type_location,
                            "previous declaration",
                            << "%type", SetTag, SUB_INDENT >>) >>
               ELSE << >>
          /\ syms'[SetTag].type_location = loc ]_vars

\* The type was set at location 1 and then to another type at location 2.
C17_Witness ==
  /\ SetTag \in DOMAIN syms
  /\ syms[SetTag].type_name = "STR"
  /\ syms[SetTag].type_location = 2
  /\ Len(diags) = 2
  /\ diags[1].msg = "redeclaration for"
  /\ diags[1].arg[1] = "%type"
  /\ diags[1].location = 2
  /\ diags[2].msg = "previous declaration"
  /\ diags[2].location = 1

(***************************************************************************)
(* SpecStart: the start symbol.  The grammar names it with %start, before  *)
(* or after it defines it or without defining it, or the reader takes the  *)
(* first rule's left-hand side; then finalize.                             *)
(***************************************************************************)
\* %start sym: the grammar parser records the symbol and the location.
GrammarStartSymbolSet(sym, loc) ==
  /\ Parsing
  /\ sym \in Known \ QuotedTags
  /\ startsymbol = NULL
  /\ startsymbol' = sym
  /\ startsymbol_location' = loc
  /\ diags' = << >>
  /\ nops' = nops + 1
  /\ UNCHANGED << syms, types, nsyms, ntokens, nvars, errtoken, undeftoken,
                  endtoken, accept, finalVars, code_props_none, dummy_count,
                  pc, fault, call, graphVars >>

NextStart ==
  \/ \E key \in StartSyms, loc \in Locs :
       pc = "parse" /\ SymbolGet(key, loc)
  \/ \E sym \in StartSyms : GrammarSymbolAppend(sym)
  \/ \E sym \in StartSyms, c \in Classes, loc \in Locs :
       /\ sym \in DOMAIN syms
       /\ syms[sym].class = "unknown_sym"
       /\ SymbolClassSet(sym, c, loc, TRUE)
  \/ \E sym \in StartSyms, loc \in Locs :
       /\ sym \in DOMAIN syms
       /\ syms[sym].class = "token_sym"
       /\ SymbolUserTokenNumberSet(sym, 0, loc)
  \/ \E sym \in StartSyms, loc \in Locs : GrammarStartSymbolSet(sym, loc)
  \/ SymbolsCheckDefined
  \/ \E sym \in StartSyms, loc \in Locs : ReaderFindStartSymbol(sym, loc)
  \/ \E ub \in UBOutcomes : SymbolsPack(ub)

SpecStart == Init /\ [][NextStart]_vars

\* symbols_pack runs, to its return or to a fatal complaint.
PackRuns == \E ub \in UBOutcomes : SymbolsPack(ub)
\* The fatal complaint msg about the start symbol is the last diagnostic.
LastIsFatal(ds, msg) ==
  /\ Len(ds) > 0
  /\ ds[Len(ds)] = Diag("fatal", startsymbol_location, msg, startsymbol)

\* C18: a start symbol that no declaration defined ends finalize with the
\* fatal error 'the start symbol is undefined', a token with 'the start
\* symbol is a token', and a nonterminal with no fatal error; the check
\* comes after the token translation.
C18_StartSymbolValidation ==
  [][ PackRuns =>
        /\ startsymbol \in Elevated =>
             /\ fault' = "fatal: start symbol undefined"
             /\ LastIsFatal(diags', "the start symbol is undefined")
        /\ syms[startsymbol].class = "token_sym" =>
             /\ fault' = "fatal: start symbol is a token"
             /\ LastIsFatal(diags', "the start symbol is a token")
        /\ (syms[startsymbol].class = "nterm_sym"
              /\ startsymbol \notin Elevated) =>
             fault' = "none"
        /\ fault' \in { "none", "fatal: start symbol undefined",
                       "fatal: start symbol is a token" } =>
             token_translations'.size = max_user_token_number' + 1 ]_vars

\* The fatal complaints of the start symbol check.
StartFatal ==
  { "fatal: start symbol undefined", "fatal: start symbol is a token" }

\* C18, as the code has it: symbols_check_defined makes a start symbol
\* without a class a nonterminal and reports it as used but not defined, so
\* symbols_pack never finds the start symbol undefined.  For a start symbol
\* that is a token when the check runs symbols_pack never returns, and ends with the fatal error 'the start
\* symbol is a token' unless an earlier step of symbols_pack ended the run;
\* for a nonterminal it raises no fatal error.  The check comes after the
\* token translation.
C18_StartSymbolChecked ==
  [][ /\ (SymbolsCheckDefined /\ pc' = "checked" /\ startsymbol # NULL
            /\ startsymbol \in Undefined) =>
           /\ syms'[startsymbol].class = "nterm_sym"
           /\ Cardinality(DiagsAbout(diags', startsymbol)) = 1
           /\ \A i \in 1..Len(diags') : diags'[i].severity # "fatal"
      /\ PackRuns =>
           /\ syms[startsymbol].class # "unknown_sym"
           /\ syms'[startsymbol].class # "unknown_sym"
           /\ fault' # "fatal: start symbol undefined"
           /\ \A i \in 1..Len(diags') :
                diags'[i].msg # "the start symbol is undefined"
           /\ syms'[startsymbol].class = "token_sym" =>
                /\ pc' = "exit"
                /\ fault' # "none"
                /\ fault' \in StartFatal =>
                     LastIsFatal(diags', "the start symbol is a token")
           /\ syms'[startsymbol].class = "nterm_sym" =>
                /\ fault' \notin StartFatal
                /\ \A i \in 1..Len(diags') : diags'[i].severity # "fatal"
                /\ fault' = "none" => pc' = "packed"
           /\ fault' \in StartFatal \cup { "none" } =>
                token_translations'.size = max_user_token_number' + 1 ]_vars

\* Finalize returned for a start symbol that %start named and nothing
\* defined.
C18_Witness ==
  /\ Finalized
  /\ startsymbol \in Elevated
  /\ startsymbol_location = 2
  /\ fault = "none"

\* sym holds a number that symbol_class_set took from ntokens++ and that
\* no end-token declaration has given back.
CountedAsToken(sym) ==
  /\ syms[sym].class = "token_sym"
  /\ syms[sym].number # NUMBER_UNDEFINED
  /\ endtoken # sym

\* C19: symbol_user_token_number_set (sym, 0, loc) makes sym the end token
\* with number 0, and takes one off ntokens only if sym was counted as a
\* token; a second call for the same symbol leaves ntokens alone.
C19_UserEndToken ==
  [][ \A sym \in E3Tags, loc \in Locs :
        SymbolUserTokenNumberSet(sym, 0, loc) =>
          /\ endtoken' = sym
          /\ syms'[sym].number = 0
          /\ ntokens' \in { ntokens, ntokens - 1 }
          /\ ntokens' = ntokens - 1 => CountedAsToken(sym) ]_vars

\* The call emitted the complaint '<what> redeclaration for <sym>'.
Redeclared(ds, what) ==
  \E i \in 1..Len(ds) :
    /\ ds[i].severity = "complaint"
    /\ ds[i].msg = "redeclaration for"
    /\ ds[i].arg[1] = what
\* The call emitted the complaint msg.
Complained(ds, msg) ==
  \E i \in 1..Len(ds) : ds[i].severity = "complaint" /\ ds[i].msg = msg
\* The symbol whose user token number symbol_user_token_number_set writes.
NumberHolder(sym) ==
  IF syms[sym].user_token_number # USER_NUMBER_HAS_STRING_ALIAS
  THEN sym ELSE syms[sym].alias

\* C20: when symbol_type_set, symbol_code_props_set, symbol_precedence_set,
\* symbol_user_token_number_set or symbol_class_set complains of a
\* redeclaration or a redefinition, the field the call was to change keeps
\* its value.
C20_ComplaintSkipsMutation ==
  [][ \A sym \in UserTags, loc \in Locs :
        /\ \A t \in TypeNames :
             (Redeclared(diags', "%type") /\ SymbolTypeSet(sym, t, loc)) =>
               syms'[sym].type_name = syms[sym].type_name
        /\ \A kind \in Kinds, code \in Codes :
             (Redeclared(diags', code_props_type_string(kind))
                /\ SymbolCodePropsSet(sym, kind, code, loc)) =>
               syms'[sym].props[kind] = syms[sym].props[kind]
        /\ \A prec \in Precs \cup SetPrecs, a \in Assocs :
             (Redeclared(diags', a)
                /\ SymbolPrecedenceSet(sym, prec, a, loc)) =>
               /\ syms'[sym].prec = syms[sym].prec
               /\ syms'[sym].assoc = syms[sym].assoc
        /\ \A n \in UserNumbers \cup SetNumbers :
             (Complained(diags', "redefining user token number of")
                /\ SymbolUserTokenNumberSet(sym, n, loc)) =>
               syms'[NumberHolder(sym)].user_token_number
                 = syms[NumberHolder(sym)].user_token_number
        /\ \A c \in Classes, d \in Declaring :
             (Complained(diags', "symbol redefined")
                /\ SymbolClassSet(sym, c, loc, d)) =>
               syms'[sym].class = syms[sym].class ]_vars

\* C20, as the code has it: the complaint does not stop the call, and the
\* field holds the value of the later declaration.
C20_ComplaintThenMutation ==
  [][ \A sym \in UserTags, loc \in Locs :
        /\ \A t \in TypeNames :
             (Redeclared(diags', "%type") /\ SymbolTypeSet(sym, t, loc)) =>
               /\ syms'[sym].type_name = t
               /\ syms'[sym].type_location = loc
        /\ \A kind \in Kinds, code \in Codes :
             (Redeclared(diags', code_props_type_string(kind))
                /\ SymbolCodePropsSet(sym, kind, code, loc)) =>
               syms'[sym].props[kind] = code_props_user(code, loc)
        /\ \A prec \in Precs \cup SetPrecs, a \in Assocs :
             (Redeclared(diags', a)
                /\ SymbolPrecedenceSet(sym, prec, a, loc)) =>
               /\ syms'[sym].prec = prec
               /\ syms'[sym].assoc = a
               /\ syms'[sym].prec_location = loc
        /\ \A n \in UserNumbers \cup SetNumbers :
             (Complained(diags', "redefining user token number of")
                /\ SymbolUserTokenNumberSet(sym, n, loc)) =>
               syms'[NumberHolder(sym)].user_token_number = n
        /\ \A c \in Classes, d \in Declaring :
             (Complained(diags', "symbol redefined")
                /\ SymbolClassSet(sym, c, loc, d)) =>
               syms'[sym].class = c ]_vars

\* The last call declared a second type for a symbol that had one, with
\* its complaint, and the symbol holds the second type.
C20_Witness ==
  /\ SetTag \in DOMAIN syms
  /\ Redeclared(diags, "%type")
  /\ syms[SetTag].type_name = "STR"
  /\ syms[SetTag].type_location = 2
  /\ diags[2].location = 1

(***************************************************************************)
(* SpecDash: a string, a character literal and an identifier with a dash   *)
(* are looked up, created and looked up again, before and after the sort.  *)
(***************************************************************************)
NextDash ==
  \/ \E key \in DashKeys, loc \in Locs : SymbolGetCall(key, loc)
  \/ \E loc \in MutLocs : SymbolClassSet(IdDash, "token_sym", loc, TRUE)
  \/ SymbolsCheckDefined

SpecDash == Init /\ [][NextDash]_vars

\* The record symbol_new makes at loc.
FreshSymbol(loc) ==
  [ location |-> loc, type_name |-> NULL, type_location |-> empty_location,
    props |-> [ k \in Kinds |-> code_props_none_init ],
    number |-> NUMBER_UNDEFINED, prec |-> 0, assoc |-> "undef_assoc",
    prec_location |-> empty_location,
    user_token_number |-> USER_NUMBER_UNDEFINED, alias |-> NULL,
    class |-> "unknown_sym", status |-> "undeclared" ]

\* C21: a get that creates a symbol emits the one warning 'POSIX Yacc
\* forbids dashes' if the tag has a dash and starts with no quote, and no
\* diagnostic otherwise; the record has the default attributes either way.
\* A get of a key that is in the store emits nothing and changes nothing.
C21_DashWarning ==
  [][ \A key \in DashKeys, loc \in Locs :
        (SymbolGetCall(key, loc) /\ fault' = "none") =>
          IF key \in DOMAIN syms
          THEN diags' = << >> /\ syms' = syms /\ nsyms' = nsyms
          ELSE /\ diags' =
                    IF key = IdDash
                    THEN << Diag("Wyacc", loc,
                                 "POSIX Yacc forbids dashes in symbol names",
                                 key) >>
                    ELSE << >>
               /\ syms'[key] = FreshSymbol(loc)
               /\ nsyms' = nsyms + 1 ]_vars

\* The identifier with a dash was just created, with its warning, after the
\* string and the character literal with a dash.
C21_Witness ==
  /\ call.key = IdDash
  /\ call.ret = IdDash
  /\ Len(diags) = 1
  /\ diags[1].severity = "Wyacc"
  /\ { StrDash, ChrDash } \subseteq DOMAIN syms

\* C22: symbol_class_set numbers a symbol only if its number is undefined,
\* from nvars++ for a nonterminal and from ntokens++ for a token; a symbol
\* that has a number keeps it, and nvars and ntokens stay as they are, also
\* when the class changes.
C22_ClassSetNumbersOnce ==
  [][ \A c \in Classes, loc \in MutLocs, d \in Declaring :
        SymbolClassSet(SetTag, c, loc, d) =>
          IF syms[SetTag].number # NUMBER_UNDEFINED
          THEN /\ syms'[SetTag].number = syms[SetTag].number
               /\ nvars' = nvars
               /\ ntokens' = ntokens
          ELSE IF c = "nterm_sym"
          THEN /\ syms'[SetTag].number = nvars
               /\ nvars' = nvars + 1
               /\ ntokens' = ntokens
          ELSE /\ syms'[SetTag].number = ntokens
               /\ ntokens' = ntokens + 1
               /\ nvars' = nvars ]_vars

\* C22, as the code has it: a symbol that becomes a nonterminal from any
\* other class takes its number from nvars++, whether it had a number or
\* not, and ntokens is not given back; a token is numbered from ntokens++
\* only if its number is undefined; any other call leaves the number and
\* the counters alone.
C22_ClassSetNumbers ==
  [][ \A c \in Classes, loc \in MutLocs, d \in Declaring :
        SymbolClassSet(SetTag, c, loc, d) =>
          IF c = "nterm_sym" /\ syms[SetTag].class # "nterm_sym"
          THEN /\ syms'[SetTag].number = nvars
               /\ nvars' = nvars + 1
               /\ ntokens' = ntokens
          ELSE IF c = "token_sym" /\ syms[SetTag].number = NUMBER_UNDEFINED
          THEN /\ syms'[SetTag].number = ntokens
               /\ ntokens' = ntokens + 1
               /\ nvars' = nvars
          ELSE /\ syms'[SetTag].number = syms[SetTag].number
               /\ nvars' = nvars
               /\ ntokens' = ntokens ]_vars

\* A token was redefined as a nonterminal: it has a number from nvars, and
\* ntokens still counts it.
C22_Witness ==
  /\ SetTag \in DOMAIN syms
  /\ syms[SetTag].class = "nterm_sym"
  /\ Complained(diags, "symbol redefined")
  /\ syms[SetTag].number = nvars - 1
  /\ ntokens = ReaderWorld.ntokens + 1

\* C23: symbol_precedence_set with undef_assoc changes nothing of the
\* symbol, leaves ntokens and nvars alone and emits no diagnostic; with
\* another associativity it sets the precedence and makes the symbol a
\* token.
C23_UndefAssocNoOp ==
  [][ \A prec \in SetPrecs, loc \in MutLocs :
        /\ SymbolPrecedenceSet(SetTag, prec, "undef_assoc", loc) =>
             /\ syms'[SetTag] = syms[SetTag]
             /\ ntokens' = ntokens
             /\ nvars' = nvars
             /\ diags' = << >>
        /\ \A a \in SetAssocs \ { "undef_assoc" } :
             SymbolPrecedenceSet(SetTag, prec, a, loc) =>
               /\ syms'[SetTag].prec = prec
               /\ syms'[SetTag].assoc = a
               /\ syms'[SetTag].prec_location = loc
               /\ syms'[SetTag].class = "token_sym" ]_vars

\* C24: when symbols_pack runs, ntokens + nvars is at most nsyms, the size
\* of the vector, and no store symbols[this->number] of symbol_pack falls
\* outside it (the run in which such a store is fatal does not die of it).
C24_PackInBounds ==
  [][ SymbolsPack("crash") =>
        /\ ntokens + nvars <= nsyms
        /\ fault' # "out-of-bounds write to symbols" ]_vars

(***************************************************************************)
(* SpecAlias: a token and its literal string.  Either is given a type, a   *)
(* %destructor or %printer and a precedence, before or after the two are   *)
(* made aliases; then finalize, with a nonterminal as the start symbol.    *)
(***************************************************************************)
NextAlias ==
  \/ \E key \in AliasSyms \cup { E1Nterm }, loc \in MentionLocs :
       pc = "parse" /\ SymbolGet(key, loc)
  \/ \E loc \in MutLocs :
       /\ E1Token \in DOMAIN syms
       /\ syms[E1Token].class = "unknown_sym"
       /\ SymbolClassSet(E1Token, "token_sym", loc, TRUE)
  \/ \E loc \in MutLocs : SymbolMakeAlias(E1Token, StrS, loc)
  \/ \E sym \in AliasSyms, t \in TypeNames, loc \in MutLocs :
       SymbolTypeSet(sym, t, loc)
  \/ \E sym \in AliasSyms, kind \in Kinds, code \in Codes, loc \in MutLocs :
       SymbolCodePropsSet(sym, kind, code, loc)
  \/ \E sym \in AliasSyms, prec \in SetPrecs, loc \in MutLocs :
       SymbolPrecedenceSet(sym, prec, "left_assoc", loc)
  \/ SymbolsCheckDefined
  \/ \E loc \in MutLocs : ReaderFindStartSymbol(E1Nterm, loc)
  \/ \E ub \in UBOutcomes : SymbolsPack(ub)

SpecAlias == Init /\ [][NextAlias]_vars

\* The token and its string are an alias pair.
IsPair ==
  /\ AliasSyms \subseteq DOMAIN syms
  /\ syms[E1Token].alias = StrS
  /\ syms[E1Token].user_token_number = USER_NUMBER_HAS_STRING_ALIAS

\* Both records keep the attribute; one side's value is copied to the other.
TypeKept(sym) ==
  /\ syms'[sym].type_name = syms[sym].type_name
  /\ syms'[sym].type_location = syms[sym].type_location
TypeCopied(from, to) ==
  /\ syms'[to].type_name = syms[from].type_name
  /\ syms'[to].type_location = syms[from].type_location
  /\ TypeKept(from)
PropsKept(sym, kind) == syms'[sym].props[kind] = syms[sym].props[kind]
PropsCopied(from, to, kind) ==
  /\ syms'[to].props[kind] = syms[from].props[kind]
  /\ PropsKept(from, kind)
PrecKept(sym) ==
  /\ syms'[sym].prec = syms[sym].prec
  /\ syms'[sym].assoc = syms[sym].assoc
  /\ syms'[sym].prec_location = syms[sym].prec_location
PrecCopied(from, to) ==
  /\ syms'[to].prec = syms[from].prec
  /\ syms'[to].assoc = syms[from].assoc
  /\ syms'[to].prec_location = syms[from].prec_location
  /\ PrecKept(from)

\* C25: in symbols_pack an attribute of an alias pair is copied from the
\* side that has it to the side that has not; when both sides have a value
\* neither record changes and no redeclaration is reported.
C25_CopyOnlyIfOneSide ==
  [][ (PackRuns /\ IsPair) =>
        /\ IF syms[E1Token].type_name # NULL /\ syms[StrS].type_name # NULL
           THEN /\ TypeKept(E1Token) /\ TypeKept(StrS)
                /\ ~Redeclared(diags', "%type")
           ELSE IF syms[StrS].type_name # NULL
           THEN TypeCopied(StrS, E1Token)
           ELSE TypeCopied(E1Token, StrS)
        /\ \A kind \in Kinds :
             IF syms[E1Token].props[kind].code # NULL
                  /\ syms[StrS].props[kind].code # NULL
             THEN /\ PropsKept(E1Token, kind) /\ PropsKept(StrS, kind)
                  /\ ~Redeclared(diags', code_props_type_string(kind))
             ELSE IF syms[StrS].props[kind].code # NULL
             THEN PropsCopied(StrS, E1Token, kind)
             ELSE PropsCopied(E1Token, StrS, kind)
        /\ IF syms[E1Token].prec # 0 /\ syms[StrS].prec # 0
           THEN /\ PrecKept(E1Token) /\ PrecKept(StrS)
                /\ ~Redeclared(diags', "left_assoc")
           ELSE IF syms[StrS].prec # 0
           THEN PrecCopied(StrS, E1Token)
           ELSE PrecCopied(E1Token, StrS) ]_vars

\* C25, as the code has it: the string side's value goes to the identifier
\* side whenever the string side has one (a type only if the two differ),
\* and the setter reports a redeclaration if the identifier side had a
\* value too; the identifier side's value goes to the string side only if
\* the string side has none.
C25_StringSideWins ==
  [][ (PackRuns /\ IsPair) =>
        /\ IF syms[StrS].type_name = syms[E1Token].type_name
           THEN /\ TypeKept(E1Token) /\ TypeKept(StrS)
                /\ ~Redeclared(diags', "%type")
           ELSE IF syms[StrS].type_name # NULL
           THEN /\ TypeCopied(StrS, E1Token)
                /\ Redeclared(diags', "%type")
                     <=> syms[E1Token].type_name # NULL
           ELSE /\ TypeCopied(E1Token, StrS)
                /\ ~Redeclared(diags', "%type")
        /\ \A kind \in Kinds :
             IF syms[StrS].props[kind].code # NULL
             THEN /\ PropsCopied(StrS, E1Token, kind)
                  /\ Redeclared(diags', code_props_type_string(kind))
                       <=> syms[E1Token].props[kind].code # NULL
             ELSE /\ PropsCopied(E1Token, StrS, kind)
                  /\ ~Redeclared(diags', code_props_type_string(kind))
        /\ IF syms[StrS].prec # 0
           THEN /\ PrecCopied(StrS, E1Token)
                /\ Redeclared(diags', "left_assoc")
                     <=> syms[E1Token].prec # 0
           ELSE /\ PrecCopied(E1Token, StrS)
                /\ ~Redeclared(diags', "left_assoc") ]_vars

\* symbols_pack ran on a pair whose two sides had different types, and
\* reported the redeclaration.
C25_Witness ==
  /\ pc = "packed"
  /\ AliasSyms \subseteq DOMAIN syms
  /\ syms[E1Token].alias = StrS
  /\ syms[E1Token].type_name = syms[StrS].type_name
  /\ syms[StrS].type_name # NULL
  /\ Redeclared(diags, "%type")

(***************************************************************************)
(* SpecSentinel: a token and its literal string, numbered before or after  *)
(* they are paired, through either name, then the grammar is finalized.    *)
(***************************************************************************)
NextSentinel ==
  \/ \E key \in AliasSyms \cup { E1Nterm }, loc \in MentionLocs :
       pc = "parse" /\ SymbolGet(key, loc)
  \/ \E loc \in MutLocs :
       /\ E1Token \in DOMAIN syms
       /\ syms[E1Token].class = "unknown_sym"
       /\ SymbolClassSet(E1Token, "token_sym", loc, TRUE)
  \/ \E sym \in AliasSyms, n \in SetNumbers, loc \in MutLocs :
       SymbolUserTokenNumberSet(sym, n, loc)
  \/ \E loc \in MutLocs : SymbolMakeAlias(E1Token, StrS, loc)
  \/ SymbolsCheckDefined
  \/ \E loc \in MutLocs : ReaderFindStartSymbol(E1Nterm, loc)
  \/ \E ub \in UBOutcomes : SymbolsPack(ub)

SpecSentinel == Init /\ [][NextSentinel]_vars

\* The identifier side and the string side of the alias pairs.
IdentifierSides ==
  { x \in DOMAIN syms : syms[x].alias # NULL /\ x \notin QuotedTags }
StringSides ==
  { x \in DOMAIN syms : syms[x].alias # NULL /\ x \in QuotedTags }
Sentinels ==
  { x \in DOMAIN syms :
      syms[x].user_token_number = USER_NUMBER_HAS_STRING_ALIAS }

\* C26: the symbols that hold the has-string-alias sentinel are the
\* identifier sides of the alias pairs, in every state; and
\* symbol_user_token_number_set on either side of a pair writes the string
\* side's user_token_number and no other.
C26_SentinelDiscipline ==
  /\ [](Sentinels = IdentifierSides /\ Sentinels \cap StringSides = {})
  /\ [][ \A sym \in AliasSyms, n \in SetNumbers, loc \in MutLocs :
           (SymbolUserTokenNumberSet(sym, n, loc)
              /\ syms[sym].alias # NULL) =>
             /\ \A x \in StringSides :
                  (x = sym \/ x = syms[sym].alias) =>
                    syms'[x].user_token_number = n
             /\ \A x \in DOMAIN syms \ StringSides :
                  syms'[x].user_token_number = syms[x].user_token_number
             /\ \A x \in StringSides :
                  (x # sym /\ x # syms[sym].alias) =>
                    syms'[x].user_token_number
                      = syms[x].user_token_number ]_vars

\* The user number of a pair was set again through the identifier, to
\* another number: the string holds it and the identifier the sentinel.
C26_Witness ==
  /\ "A" \in IdentifierSides
  /\ syms["A"].alias = StrS
  /\ Complained(diags, "redefining user token number of")
  /\ diags[1].arg = "A"
  /\ syms[StrS].user_token_number = 300
  /\ syms["A"].user_token_number = USER_NUMBER_HAS_STRING_ALIAS

(***************************************************************************)
(* SpecClash: tokens first mentioned at any of three places, each declared *)
(* once with a user number the others may hold too, 0 (the end token)     *)
(* included; one nonterminal, the start symbol.                            *)
(***************************************************************************)
ClashLocs == { 1, 2, 3 }
ClashNumbers == { 0, 258 }

NextClash ==
  \/ \E key \in E4Tokens, loc \in ClashLocs :
       pc = "parse" /\ SymbolGet(key, loc)
  \/ \E loc \in MentionLocs :
       pc = "parse" /\ SymbolGet(E4Nterm, loc)
  \/ \E sym \in E4Tokens \cap DOMAIN syms, n \in ClashNumbers,
        loc \in MutLocs :
       /\ syms[sym].class = "unknown_sym"
       /\ DeclareToken(sym, n, loc)
  \/ \E loc \in MutLocs :
       /\ E4Nterm \in DOMAIN syms
       /\ syms[E4Nterm].class = "unknown_sym"
       /\ SymbolClassSet(E4Nterm, "nterm_sym", loc, TRUE)
  \/ SymbolsCheckDefined
  \/ \E loc \in MutLocs : ReaderFindStartSymbol(E4Nterm, loc)
  \/ \E ub \in UBOutcomes : SymbolsPack(ub)

SpecClash == Init /\ [][NextClash]_vars

\* The positions, in tag order, of the tokens symbol_translation enters.
VisitedTokens ==
  { i \in 1..Len(symbols_sorted) :
      /\ syms[symbols_sorted[i]].class = "token_sym"
      /\ syms[symbols_sorted[i]].user_token_number
           # USER_NUMBER_HAS_STRING_ALIAS }
\* The earlier positions holding the user number of position i.
SameNumberBefore(i) ==
  { j \in VisitedTokens :
      /\ j < i
      /\ syms[symbols_sorted[j]].user_token_number
           = syms[symbols_sorted[i]].user_token_number
      /\ syms[symbols_sorted[j]].user_token_number
           # USER_NUMBER_UNDEFINED }
\* The positions visited while their entry is occupied, in visit order.
ClashingVisits ==
  { i \in VisitedTokens : SameNumberBefore(i) # {} }
ClashMessages ==
  { "user token number redeclaration for", "previous declaration for" }
ClashDiags(ds) == SelectSeq(ds, LAMBDA d : d.msg \in ClashMessages)
\* The k-th clashing position.
KthClash(k) ==
  CHOOSE i \in ClashingVisits :
    Cardinality({ j \in ClashingVisits : j <= i }) = k
\* D[2k-1], D[2k] is the diagnostic of a visit of `this' whose entry held
\* `prev': the complaint at the later place, the note at the earlier one.
TwoPart(D, k, this, prev) ==
  LET primary == D[2 * k - 1]
      note == D[2 * k]
  IN /\ primary.msg = "user token number redeclaration for"
     /\ note.msg = "previous declaration for"
     /\ primary.severity = "complaint"
     /\ primary.arg[1] = syms[this].user_token_number
     /\ { primary.arg[2], note.arg[2] } = { this, prev }
     /\ primary.location = syms[primary.arg[2]].location
     /\ note.location = syms[note.arg[2]].location
     /\ primary.location >= note.location
     /\ note.arg[3] = primary.arg[3] + SUB_INDENT

\* C27: when symbols_pack has run the translation sweep, every visit of a
\* non-alias token whose user number the previously visited holder already
\* put in token_translations has produced one two-part diagnostic, the
\* complaint citing the token of the later location and the indented note
\* the token of the earlier one; there are no other such diagnostics, so
\* none when the user numbers differ pairwise.
C27_UserNumberCollisions ==
  [][ \A ub \in UBOutcomes :
        (SymbolsPack(ub) /\ fault' \in StartFatal \cup { "none" }) =>
          LET D == ClashDiags(diags')
          IN /\ Len(D) = 2 * Cardinality(ClashingVisits)
             /\ \A k \in 1..Cardinality(ClashingVisits) :
                  LET i == KthClash(k)
                      j == CHOOSE x \in SameNumberBefore(i) :
                             \A y \in SameNumberBefore(i) : y <= x
                  IN TwoPart(D, k, symbols_sorted[i], symbols_sorted[j])
    ]_vars

\* A list of ids is strictly ascending, hence without duplicates.
StrictlyAscending(list) ==
  \A k \in 1..(Len(list) - 1) : list[k] < list[k + 1]
ListIds(list) == { list[k] : k \in 1..Len(list) }

\* C28: after register_precedence calls and before group_relations, the
\* succ and pred lists of every node are strictly ascending by id, b is in
\* succ (a) exactly when a is in pred (b), and outdegree and indegree are
\* the lengths of succ and pred.
C28_ListsSortedSymmetric ==
  (pc \in { "packed", "printed" } /\ prec_nodes # << >>) =>
    /\ \A i \in 1..Len(prec_nodes) :
         /\ StrictlyAscending(prec_nodes[i].succ)
         /\ StrictlyAscending(prec_nodes[i].pred)
         /\ prec_nodes[i].outdegree = Len(prec_nodes[i].succ)
         /\ prec_nodes[i].indegree = Len(prec_nodes[i].pred)
    /\ \A a, b \in 0..(Len(prec_nodes) - 1) :
         b \in ListIds(prec_nodes[a + 1].succ)
           <=> a \in ListIds(prec_nodes[b + 1].pred)

\* Three relations, two of them from one node with the larger id
\* registered into a list that is not empty, and two into one node.
C28_Witness ==
  /\ pc = "packed"
  /\ nedges = 3
  /\ Cardinality(PrecEdges) = 3
  /\ \E i \in 1..Len(prec_nodes) : prec_nodes[i].outdegree = 2
  /\ \E i \in 1..Len(prec_nodes) : prec_nodes[i].indegree = 2

\* rep (x) in a grouped node vector of n symbols and ng groups: the group
\* that chains x, or x.
GroupsOf(nodes, n, ng, x) ==
  { g \in n..(n + ng - 1) : x \in MembersOf(nodes, g) }
Rep(nodes, n, ng, x) ==
  IF GroupsOf(nodes, n, ng, x) = {}
  THEN x
  ELSE CHOOSE g \in GroupsOf(nodes, n, ng, x) : TRUE
\* The roots get_virtual_root links the virtual root to, before grouping.
RootsOf(nodes, n) ==
  { i \in 1..(n - 1) :
      /\ ListIds(nodes[i + 1].pred) \subseteq { 0 }
      /\ nodes[i + 1].succ # << >> }
\* The links group_relations has left when it returns, without those
\* from the virtual root to (the groups of) the roots.
GroupedLinks ==
  EdgesOf(prec_nodes')
    \ { << 0, Rep(prec_nodes', nsyms, ngroups', i) >> :
          i \in RootsOf(prec_nodes, nsyms) }

\* C29: when group_relations returns, every registered relation a > b is
\* a successor link from rep (a) to rep (b), and every such link that the
\* virtual root did not add is a registered relation; the relations to
\* and from symbol number 0 included.
C29_GroupingPreservesRelation ==
  [][ (pc = "packed" /\ PrintRelDotGraph /\ pc' = "grouped") =>
        \A a, b \in 0..(nsyms - 1) :
          /\ << a, b >> \in PrecEdges =>
               << Rep(prec_nodes', nsyms, ngroups', a),
                  Rep(prec_nodes', nsyms, ngroups', b) >>
                 \in EdgesOf(prec_nodes')
          /\ << Rep(prec_nodes', nsyms, ngroups', a),
                Rep(prec_nodes', nsyms, ngroups', b) >> \in GroupedLinks
               => << a, b >> \in PrecEdges ]_vars

\* The successors and the predecessors of a symbol in a relation R.
SuccIn(R, a) == { e[2] : e \in { x \in R : x[1] = a } }
PredIn(R, a) == { e[1] : e \in { x \in R : x[2] = a } }

\* C30: when group_relations returns for an acyclic relation, two distinct
\* symbols that each take part in a relation are chained in one group
\* exactly when their successors were the same and their predecessors
\* were the same in the registered relation; every group chains at least
\* two symbols and no symbol is chained in two groups.
C30_GroupsAreClasses ==
  [][ (pc = "packed" /\ Acyclic(PrecEdges) /\ PrintRelDotGraph
         /\ pc' = "grouped") =>
        /\ \A a, b \in Higher(PrecEdges) \cup Lower(PrecEdges) :
             a # b =>
               ((GroupsOf(prec_nodes', nsyms, ngroups', a)
                   \cap GroupsOf(prec_nodes', nsyms, ngroups', b) # {})
                 <=> (/\ SuccIn(PrecEdges, a) = SuccIn(PrecEdges, b)
                      /\ PredIn(PrecEdges, a) = PredIn(PrecEdges, b)))
        /\ \A g \in nsyms..(nsyms + ngroups' - 1) :
             Cardinality(MembersOf(prec_nodes', g)) >= 2
        /\ \A a \in 0..(nsyms - 1) :
             Cardinality(GroupsOf(prec_nodes', nsyms, ngroups', a)) <= 1
    ]_vars

\* The faults of a walk over a list of links in group_relations.
LinkFaults ==
  { "null dereference in delete_one_link", "read of a freed link" }

\* C31: during group_relations, whatever relations register_precedence
\* was given, delete_one_link is never called on a list without the id to
\* delete, and depth_grouping never continues its loop from a freed link.
C31_LinkDeletionWellFounded ==
  [][ PrintRelDotGraph => fault' \notin LinkFaults ]_vars

\* The colour of the legend for a link from a node of outdegree od to a
\* node of indegree id.
LegendColour(od, id) ==
  IF od = 1 /\ id = 1 THEN "red"
  ELSE IF od = 1 THEN "blue"
  ELSE IF id = 1 THEN "green"
  ELSE "black"
\* The node a link line of the dot file leaves, and the node it enters.
LinkTail(l) == IF l.ltail # NoNode THEN l.ltail ELSE l.tail
LinkHead(l) == IF l.lhead # NoNode THEN l.lhead ELSE l.head

\* C32: every link print_rel_dot_graph prints has the colour of the
\* legend: red when the tail has outdegree 1 and the head indegree 1, blue
\* when only the tail has outdegree 1, green when only the head has
\* indegree 1, black otherwise.
C32_EdgeColour ==
  [][ (PrintRelDotGraph /\ pc' = "grouped") =>
        \A k \in 1..Len(dot') :
          dot'[k].line = "link" =>
            dot'[k].color
              = LegendColour(prec_nodes'[LinkTail(dot'[k]) + 1].outdegree,
                             prec_nodes'[LinkHead(dot'[k]) + 1].indegree)
    ]_vars

(***************************************************************************)
(* SpecProps: a symbol and the error token are given a type and a          *)
(* %destructor or %printer, semantic types (the defaults <*> and <>        *)
(* included) are given theirs, and the computed props of the symbols are   *)
(* looked up.  Only %destructor is declared; both kinds are looked up.     *)
(***************************************************************************)
PropsSyms == { SetTag, "error" }
PropsTypes == { "INT", "*", "" }
PropsType == "INT"
PropsCode == "c1"
PropsKind == "destructor"

NextProps ==
  \/ \E loc \in MentionLocs : pc = "parse" /\ SymbolGet(SetTag, loc)
  \/ \E sym \in PropsSyms, loc \in MutLocs :
       SymbolTypeSet(sym, PropsType, loc)
  \/ \E sym \in PropsSyms, loc \in MutLocs :
       SymbolCodePropsSet(sym, PropsKind, PropsCode, loc)
  \/ \E tag \in PropsTypes, loc \in MutLocs :
       SemanticTypeCodePropsSet(tag, PropsKind, PropsCode, loc)
  \/ \E sym \in DOMAIN syms, kind \in Kinds : SymbolCodePropsGet(sym, kind)

SpecProps == Init /\ [][NextProps]_vars

\* The semantic type named tag has code for kind.
TypeHasCode(tag, kind) ==
  tag \in DOMAIN types /\ types[tag].props[kind].code # NULL
DefaultType(sym) == IF syms[sym].type_name # NULL THEN "*" ELSE ""
\* The place the lookup of the computed props of sym is to resolve to.
PropsReference(sym, kind) ==
  IF syms[sym].props[kind].code # NULL
  THEN << "symbol", sym >>
  ELSE IF syms[sym].type_name # NULL /\ TypeHasCode(syms[sym].type_name, kind)
  THEN << "type", syms[sym].type_name >>
  ELSE IF /\ sym \notin DollarTags
          /\ sym # errtoken
          /\ TypeHasCode(DefaultType(sym), kind)
  THEN << "type", DefaultType(sym) >>
  ELSE << "none", NULL >>

\* C33: symbol_code_props_get (sym, kind) returns the symbol's own prop if
\* it has code; else the prop of the semantic type of the symbol if that
\* has code; else, for a symbol whose tag does not start with '$' and that
\* is not the error token, the prop of <*> (typed symbol) or of <> (untyped
\* symbol) if that has code; else the empty prop.
C33_CodePropsGetOrder ==
  [][ \A sym \in DOMAIN syms, kind \in Kinds :
        SymbolCodePropsGet(sym, kind) =>
          call'.ret = PropsReference(sym, kind) ]_vars

\* The lookup for a typed symbol without props of its own and of its type
\* fell back to <*>, and the lookup for the error token did not.
C33_Witness ==
  /\ "kind" \in DOMAIN call
  /\ call.key = "error"
  /\ call.ret = << "none", NULL >>
  /\ syms["error"].type_name = PropsType
  /\ TypeHasCode("*", call.kind)
  /\ ~TypeHasCode(PropsType, call.kind)

\* C34: in the translation sweep of symbols_pack, every token that is not
\* the identifier side of an alias has a user number in
\* 0 .. max_user_token_number when token_translations is indexed by it,
\* whatever mutators were called before.
C34_TranslationInBounds ==
  [][ \A ub \in UBOutcomes :
        SymbolsPack(ub) =>
          fault' # "out-of-bounds access to token_translations" ]_vars

(***************************************************************************)
(* SpecAuto: tokens declared with or without a user number, one            *)
(* nonterminal, the start symbol; symbols_pack numbers the tokens left     *)
(* without a user number.                                                  *)
(***************************************************************************)
AutoNumbers == { 256, 300 }

NextAuto ==
  \/ \E key \in E4Tokens \cup { E4Nterm }, loc \in MentionLocs :
       pc = "parse" /\ SymbolGet(key, loc)
  \/ \E sym \in E4Tokens \cap DOMAIN syms, loc \in MutLocs :
       /\ syms[sym].class = "unknown_sym"
       /\ SymbolClassSet(sym, "token_sym", loc, TRUE)
  \/ \E sym \in E4Tokens \cap DOMAIN syms, n \in AutoNumbers,
        loc \in MutLocs :
       /\ syms[sym].class = "token_sym"
       /\ syms[sym].user_token_number = USER_NUMBER_UNDEFINED
       /\ SymbolUserTokenNumberSet(sym, n, loc)
  \/ \E loc \in MutLocs :
       /\ E4Nterm \in DOMAIN syms
       /\ syms[E4Nterm].class = "unknown_sym"
       /\ SymbolClassSet(E4Nterm, "nterm_sym", loc, TRUE)
  \/ SymbolsCheckDefined
  \/ \E loc \in MutLocs : ReaderFindStartSymbol(E4Nterm, loc)
  \/ \E ub \in UBOutcomes : SymbolsPack(ub)

SpecAuto == Init /\ [][NextAuto]_vars

\* The tokens that symbols_pack gives a user number: they had none before.
AutoNumbered ==
  { t \in DOMAIN syms :
      /\ syms[t].user_token_number = USER_NUMBER_UNDEFINED
      /\ syms'[t].class = "token_sym"
      /\ syms'[t].user_token_number # USER_NUMBER_UNDEFINED }
\* The tokens a user-token-number redeclaration diagnostic cites.
ClashCited(ds) ==
  { ClashDiags(ds)[k].arg[2] : k \in 1..Len(ClashDiags(ds)) }
AutoDistinct ==
  \A t, u \in AutoNumbered :
    t # u => syms'[t].user_token_number # syms'[u].user_token_number
AutoAbove(t) ==
  /\ syms'[t].user_token_number > 256
  /\ \A d \in DeclaredUserNumbers : syms'[t].user_token_number > d

\* C35 as stated: the user numbers symbols_pack assigns are pairwise
\* distinct, greater than 256 and than every declared user number, and no
\* redeclaration diagnostic cites a token whose number was assigned.
C35_AutoNumbersAbove256 ==
  [][ PackReturns =>
        /\ AutoDistinct
        /\ \A t \in AutoNumbered : AutoAbove(t)
        /\ ClashCited(diags') \cap AutoNumbered = {} ]_vars

\* The symbols in the slots [0, ntokens) of the packed vector, the ones
\* of them symbols_pack numbers, and the user numbers declared among them.
TokenSlots == { symbols'[i] : i \in 1..ntokens' }
SlotNumbered ==
  { t \in TokenSlots : syms[t].user_token_number = USER_NUMBER_UNDEFINED }
SlotDeclared ==
  { syms[t].user_token_number : t \in TokenSlots }
    \ { USER_NUMBER_UNDEFINED }
DeclaredOutside(n) ==
  \E u \in DOMAIN syms \ TokenSlots : syms[u].user_token_number = n

\* C35 amended: the user numbers symbols_pack assigns to the symbols in
\* the slots [0, ntokens) that had none are pairwise distinct and, except
\* for the 256 the error token is given when no symbol of these slots
\* declared 256, greater than 256 and than every user number declared in
\* these slots; a redeclaration diagnostic cites such a symbol only for a
\* number that a symbol outside these slots declared.
C35_AutoNumbersDistinct ==
  [][ PackReturns =>
        /\ \A t, u \in SlotNumbered :
             t # u => syms'[t].user_token_number # syms'[u].user_token_number
        /\ \A t \in SlotNumbered :
             \/ /\ syms'[t].user_token_number > 256
                /\ \A d \in SlotDeclared : syms'[t].user_token_number > d
             \/ /\ t = errtoken
                /\ syms'[t].user_token_number = 256
                /\ 256 \notin SlotDeclared
        /\ \A t \in ClashCited(diags') \cap SlotNumbered :
             DeclaredOutside(syms'[t].user_token_number) ]_vars

\* A token was declared 300 and another left without a number: the error
\* token was given 256, below the declared 300, and $undefined and the
\* other token two numbers above 300.
C35_Witness ==
  /\ Finalized
  /\ \E t, u \in E4Tokens \cap DOMAIN syms :
       /\ syms[t].user_token_number = 300
       /\ syms[u].user_token_number > 300
       /\ syms[u].user_token_number # syms[undeftoken].user_token_number
  /\ syms[errtoken].user_token_number = 256
  /\ syms[undeftoken].user_token_number > 300

(***************************************************************************)
(* SpecGroupLive: SpecGroup, the printer of the relation graph being       *)
(* called once the conflict resolver has registered its relations: a run   *)
(* that stays packed for ever takes the step of print_rel_dot_graph.       *)
(***************************************************************************)
SpecGroupLive ==
  /\ Init /\ [][NextGroup]_vars
  /\ <>[](pc = "packed") => []<><<PrintRelDotGraph>>_vars

\* The state of group_relations at its return, for the graph registered.
Grouping == group_relations(prec_nodes, markvector, nsyms)

Distinct(seq) == \A i, j \in 1..Len(seq) : seq[i] = seq[j] => i = j

\* The brothers check_for_group is given for the p-th successor of node a
\* of the graph under its virtual root.
BrothersOf(nodes, a, p) ==
  SubSeq(nodes[a + 1].succ, p + 1, Len(nodes[a + 1].succ))

\* The list check_for_group returns is stable: one more turn of its loop
\* over that list keeps every element, so same_size holds and no further
\* call is made.
FixedPoint(nodes, mv, ref, brothers) ==
  Len(potential_loop(nodes, mv, ref,
                     check_for_group(nodes, mv, ref, brothers), 1, << >>))
    = Len(check_for_group(nodes, mv, ref, brothers))

RetriesSettle(nodes, mv) ==
  \A a \in 0..(Len(nodes) - 1) :
    \A p \in 1..Len(nodes[a + 1].succ) :
      FixedPoint(nodes, mv, nodes[a + 1].succ[p], BrothersOf(nodes, a, p))

TypedSyms == { SetTag, "error" }
TypeTags == { "INT", "STR", "*", "" }
ReservedTags == { "", "*" }

NextTypes ==
  \/ \E loc \in MentionLocs : pc = "parse" /\ SymbolGet(SetTag, loc)
  \/ \E sym \in TypedSyms \cap DOMAIN syms, loc \in MutLocs :
       SymbolTypeSet(sym, PropsType, loc)
  \/ \E sym \in TypedSyms \cap DOMAIN syms, loc \in MutLocs :
       SymbolCodePropsSet(sym, PropsKind, PropsCode, loc)
  \/ \E tag \in TypeTags, kind \in Kinds, loc \in MutLocs :
       SemanticTypeCodePropsSet(tag, kind, PropsCode, loc)
  \/ SymbolsCheckDefined

SpecTypes == Init /\ [][NextTypes]_vars

\* The sweep over the semantic types was made: the symbol sweep before it
\* ended without a failed assertion.
TypesChecked == SymbolsCheckDefined /\ fault' = "none"

\* The type named tag is associated to some symbol.
Associated(tag) == \E sym \in DOMAIN syms' : syms'[sym].type_name = tag

\* Type tag had a prop of the kind when the check started.
HadProp(tag, kind) ==
  tag \in DOMAIN types /\ types[tag].props[kind].kind # "CODE_PROPS_NONE"

\* The computed props of sym for kind are those of type tag: the symbol
\* has no code of its own, and tag is its type if that has code, else the
\* default type of a user symbol other than the error token.
ResolvesTo(sym, kind, tag) ==
  /\ syms'[sym].props[kind].code = NULL
  /\ HadProp(tag, kind)
  /\ IF syms'[sym].type_name # NULL /\ HadProp(syms'[sym].type_name, kind)
     THEN tag = syms'[sym].type_name
     ELSE /\ sym \notin DollarTags
          /\ sym # errtoken
          /\ tag = (IF syms'[sym].type_name # NULL THEN "*" ELSE "")

MarkedUsed(tag, kind) ==
  \E sym \in DOMAIN syms' : ResolvesTo(sym, kind, tag)

WarnedUseless(tag, kind) ==
  \E k \in 1..Len(diags') :
    /\ diags'[k].msg = "useless for type"
    /\ diags'[k].severity = "Wother"
    /\ diags'[k].arg = << code_props_type_string(kind), tag >>

WarnedUnassociated(tag) ==
  \E k \in 1..Len(diags') :
    /\ diags'[k].msg = "type is used, but is not associated to any symbol"
    /\ diags'[k].severity = "Wother"
    /\ diags'[k].arg = tag

\* C37 as stated: a 'useless %destructor/%printer for type' warning is
\* emitted for a type and kind exactly when the type is associated to some
\* symbol, is not "" or "*", has a prop of that kind, and no symbol marked the
\* prop used; a 'type is used, but is not associated to any symbol' warning
\* is emitted exactly for the types other than "" and "*" that are not
\* associated; "" and "*" produce neither warning.
C37_TypeWarnings ==
  [][ TypesChecked =>
        \A tag \in DOMAIN types' :
          /\ \A kind \in Kinds :
               WarnedUseless(tag, kind) <=>
                 /\ Associated(tag)
                 /\ tag \notin ReservedTags
                 /\ HadProp(tag, kind)
                 /\ ~MarkedUsed(tag, kind)
          /\ WarnedUnassociated(tag) <=>
               (tag \notin ReservedTags /\ ~Associated(tag)) ]_vars

\* C37, amended: the 'useless' warning is emitted for a type and kind
\* exactly when the type is associated to some symbol or is "" or "*", has a
\* prop of that kind, and no symbol marked the prop used; the 'not
\* associated' warning is emitted exactly for the types other than "" and
\* "*" that are not associated, so "" and "*" never produce that one.
C37_TypeWarningsReserved ==
  [][ TypesChecked =>
        \A tag \in DOMAIN types' :
          /\ \A kind \in Kinds :
               WarnedUseless(tag, kind) <=>
                 /\ Associated(tag) \/ tag \in ReservedTags
                 /\ HadProp(tag, kind)
                 /\ ~MarkedUsed(tag, kind)
          /\ WarnedUnassociated(tag) <=>
               (tag \notin ReservedTags /\ ~Associated(tag)) ]_vars

\* The check warned of a useless prop of a reserved type and of a type not
\* associated to any symbol, and kept silent on the used prop of an
\* associated type.
C37_Witness ==
  /\ fault = "none"
  /\ \E k \in 1..Len(diags) :
       /\ diags[k].msg = "useless for type"
       /\ diags[k].arg[2] \in ReservedTags
  /\ \E k \in 1..Len(diags) :
       diags[k].msg = "type is used, but is not associated to any symbol"
  /\ \E tag \in DOMAIN types \ ReservedTags :
       /\ types[tag].status = "declared"
       /\ types[tag].props[PropsKind].is_used

(***************************************************************************)
(* SpecPrec: two tokens are declared with a precedence, the grammar is     *)
(* read and packed, the conflict resolver registers the relations between  *)
(* the two tokens and the associativities it used, and the precedence or   *)
(* the associativity warnings are printed.                                 *)
(***************************************************************************)
PrecTokens == { "A", "C" }
PrecNterm == "B"
PrecAssocs == { "precedence_assoc", "left_assoc", "right_assoc" }

NextPrec ==
  \/ \E key \in PrecTokens \cup { PrecNterm }, loc \in MentionLocs :
       pc = "parse" /\ SymbolGet(key, loc)
  \/ \E sym \in PrecTokens \cap DOMAIN syms, prec \in Precs,
        a \in PrecAssocs, loc \in MutLocs :
       syms[sym].class = "unknown_sym"
         /\ SymbolPrecedenceSet(sym, prec, a, loc)
  \/ \E loc \in MutLocs, d \in Declaring :
       /\ PrecNterm \in DOMAIN syms
       /\ syms[PrecNterm].class = "unknown_sym"
       /\ SymbolClassSet(PrecNterm, "nterm_sym", loc, d)
  \/ SymbolsCheckDefined
  \/ \E loc \in MutLocs : ReaderFindStartSymbol(PrecNterm, loc)
  \/ \E ub \in UBOutcomes : SymbolsPack(ub)
  \/ \E a, b \in PrecTokens \cap DOMAIN syms :
       nedges < MaxEdges
         /\ RegisterPrecedence(syms[a].number, syms[b].number)
  \/ \E a, b \in PrecTokens \cap DOMAIN syms :
       nedges < MaxEdges /\ RegisterAssoc(syms[a].number, syms[b].number)
  \/ PrintPrecedenceWarnings
  \/ PrintAssocWarnings

SpecPrec == Init /\ [][NextPrec]_vars

\* The packed symbol i.
Packed(i) == syms[symbols[i + 1]]

\* Symbol number i is on a side of a relation registered so far.
InRelation(i) ==
  \E p \in PrecEdges : p[1] = i \/ p[2] = i

\* The warnings of the latest call that are about the symbol in slot i.
WarningsFor(msg, i) ==
  { k \in 1..Len(diags') :
      /\ diags'[k].msg = msg
      /\ diags'[k].severity = "Wprecedence"
      /\ diags'[k].arg = symbols[i + 1] }

\* C38: print_precedence_warnings emits 'useless precedence' for the packed
\* symbol i exactly when symbols[i].prec != 0, symbols[i].assoc is
\* precedence, and node i has no predecessor and no successor after the
\* register_precedence calls made; it does so once, and a symbol on either
\* side of a registered relation, or whose assoc is left, right or nonassoc,
\* does not get this warning.
C38_UselessPrecedence ==
  [][ PrintPrecedenceWarnings =>
        /\ \A i \in 0..(nsyms - 1) :
             /\ WarningsFor("useless precedence for", i) # {} <=>
                  /\ Packed(i).prec # 0
                  /\ Packed(i).assoc = "precedence_assoc"
                  /\ prec_nodes'[i + 1].pred = << >>
                  /\ prec_nodes'[i + 1].succ = << >>
             /\ ( \/ InRelation(i)
                  \/ Packed(i).assoc
                       \in { "left_assoc", "right_assoc", "nonassoc_assoc" } )
                  => WarningsFor("useless precedence for", i) = {}
             /\ Cardinality(WarningsFor("useless precedence for", i)) <= 1
        /\ \A k \in 1..Len(diags') :
             \E i \in 0..(nsyms - 1) :
               k \in WarningsFor("useless precedence for", i) ]_vars

\* The warnings were printed for one token left out of every relation and
\* silent on a %precedence token that a relation names.
C38_Witness ==
  /\ pc = "warned"
  /\ \E k \in 1..Len(diags) : diags[k].msg = "useless precedence for"
  /\ \E t \in PrecTokens \cap DOMAIN syms :
       /\ syms[t].assoc = "precedence_assoc"
       /\ InRelation(syms[t].number)
       /\ \A k \in 1..Len(diags) : diags[k].arg # t

LeftRightNon == { "left_assoc", "right_assoc", "nonassoc_assoc" }

\* The mark of symbol number n in a used_assoc that may be null still.
Marked(used, n) == used # << >> /\ used[n + 1]

\* C39: print_assoc_warnings emits 'useless associativity' for the packed
\* symbol s exactly when s.assoc is left, right or nonassoc and no
\* register_assoc call made before had s.number as an argument: a call of
\* register_assoc (i, j) marks i and j, leaves every other mark as it was, so
\* clears none, and the warning goes, once, to the symbols of such an assoc
\* whose number has no mark.
C39_UselessAssociativity ==
  /\ [][ \A i, j \in 0..(nsyms - 1) :
           RegisterAssoc(i, j) =>
             /\ used_assoc'[i + 1]
             /\ used_assoc'[j + 1]
             /\ Len(used_assoc') = nsyms
             /\ \A n \in 0..(nsyms - 1) \ { i, j } :
                  used_assoc'[n + 1] = Marked(used_assoc, n) ]_vars
  /\ [][ PrintAssocWarnings =>
           /\ \A i \in 0..(nsyms - 1) :
                /\ WarningsFor("useless associativity for", i) # {} <=>
                     /\ Packed(i).assoc \in LeftRightNon
                     /\ ~Marked(used_assoc, Packed(i).number)
                /\ Cardinality(
                     WarningsFor("useless associativity for", i)) <= 1
           /\ \A k \in 1..Len(diags') :
                \E i \in 0..(nsyms - 1) :
                  k \in WarningsFor("useless associativity for", i) ]_vars

\* The warnings were printed for a left or right token that no call of
\* register_assoc named, and not for one that a call named.
C39_Witness ==
  /\ pc = "warned"
  /\ \E k \in 1..Len(diags) : diags[k].msg = "useless associativity for"
  /\ \E t \in PrecTokens \cap DOMAIN syms :
       /\ syms[t].assoc \in LeftRightNon
       /\ Marked(used_assoc, syms[t].number)
       /\ \A k \in 1..Len(diags) : diags[k].arg # t

=============================================================================
